---------------------------- MODULE Spec2Model ----------------------------
(***************************************************************************)
(* A model of the browsing proxy of src/server.js: the request resolver    *)
(* (app.all('/proxy*') and the catch-all route), the URL codec             *)
(* (rewriteURL), the HTML and CSS rewriters, the upstream dispatcher with  *)
(* the cookie jar of the request library, and the response pipeline        *)
(* (proxyRequest).                                                         *)
(*                                                                         *)
(* Strings are sequences of one-character strings, so that the code's      *)
(* regular expressions, startsWith/includes tests, percent-decoding and    *)
(* URL parsing are computed character by character.                        *)
(***************************************************************************)
EXTENDS Integers, Sequences, FiniteSets, TLC

(***************************************************************************)
(* Characters and string primitives (JavaScript String methods).           *)
(***************************************************************************)
LowerSeq == <<"a","b","c","d","e","f","g","h","i","j","k","l","m",
              "n","o","p","q","r","s","t","u","v","w","x","y","z">>
UpperSeq == <<"A","B","C","D","E","F","G","H","I","J","K","L","M",
              "N","O","P","Q","R","S","T","U","V","W","X","Y","Z">>
DigitSeq == <<"0","1","2","3","4","5","6","7","8","9">>

Lower == {LowerSeq[i] : i \in 1..26}
Upper == {UpperSeq[i] : i \in 1..26}
Digit == {DigitSeq[i] : i \in 1..10}
Alpha == Lower \cup Upper

\* String.prototype.toLowerCase on one character.
LowerChar(c) ==
  IF c \in Upper THEN LowerSeq[CHOOSE i \in 1..26 : UpperSeq[i] = c] ELSE c

\* String.prototype.toLowerCase.
ToLowerCase(s) == [i \in 1..Len(s) |-> LowerChar(s[i])]

\* String.prototype.startsWith.
StartsWith(s, p) == Len(s) >= Len(p) /\ SubSeq(s, 1, Len(p)) = p

\* String.prototype.endsWith.
EndsWith(s, p) == Len(s) >= Len(p) /\ SubSeq(s, Len(s) - Len(p) + 1, Len(s)) = p

\* String.prototype.substring(n).
Drop(s, n) == IF n < 0 THEN s ELSE SubSeq(s, n + 1, Len(s))

\* String.prototype.substring(0, n).
Take(s, n) == SubSeq(s, 1, IF n > Len(s) THEN Len(s) ELSE n)

\* String.prototype.includes.
Includes(s, sub) ==
  \E i \in 0..(Len(s) - Len(sub)) : SubSeq(s, i + 1, i + Len(sub)) = sub

\* 1-based index of the first character of s that is in cs, 0 when there is none
\* (String.prototype.indexOf / search, shifted by one).
IndexOfAny(s, cs) ==
  IF \E i \in 1..Len(s) : s[i] \in cs
  THEN CHOOSE i \in 1..Len(s) : s[i] \in cs /\ \A j \in 1..(i - 1) : s[j] \notin cs
  ELSE 0

IndexOf(s, c) == IndexOfAny(s, {c})

\* 1-based index of the last occurrence of c in s, 0 when there is none.
LastIndexOf(s, c) ==
  IF \E i \in 1..Len(s) : s[i] = c
  THEN CHOOSE i \in 1..Len(s) : s[i] = c /\ \A j \in (i + 1)..Len(s) : s[j] # c
  ELSE 0

\* The length of the longest prefix of s whose characters are all in cs.
SpanLen(s, cs) ==
  IF \E i \in 1..Len(s) : s[i] \notin cs
  THEN (CHOOSE i \in 1..Len(s) : s[i] \notin cs /\ \A j \in 1..(i - 1) : s[j] \in cs) - 1
  ELSE Len(s)

\* String.prototype.trim, for the space character.
RECURSIVE TrimLeft(_)
TrimLeft(s) == IF s # <<>> /\ Head(s) = " " THEN TrimLeft(Tail(s)) ELSE s

RECURSIVE TrimRight(_)
TrimRight(s) ==
  IF s # <<>> /\ s[Len(s)] = " " THEN TrimRight(Take(s, Len(s) - 1)) ELSE s

Trim(s) == TrimRight(TrimLeft(s))

\* String.prototype.split on one character.
RECURSIVE Split(_, _)
Split(s, c) ==
  LET i == IndexOf(s, c)
  IN  IF i = 0 THEN <<s>> ELSE <<Take(s, i - 1)>> \o Split(Drop(s, i), c)

\* Array.prototype.join.
RECURSIVE Join(_, _)
Join(parts, sep) ==
  IF parts = <<>> THEN <<>>
  ELSE IF Len(parts) = 1 THEN parts[1]
  ELSE parts[1] \o sep \o Join(Tail(parts), sep)

\* The value of a string of decimal digits.
RECURSIVE DigitsValue(_)
DigitsValue(ds) ==
  IF ds = <<>> THEN 0
  ELSE 10 * DigitsValue(Take(ds, Len(ds) - 1))
       + ((CHOOSE i \in 1..10 : DigitSeq[i] = ds[Len(ds)]) - 1)

\* Number.prototype.toString.
RECURSIVE NumberToString(_)
NumberToString(n) ==
  IF n < 10 THEN <<DigitSeq[n + 1]>>
  ELSE NumberToString(n \div 10) \o <<DigitSeq[(n % 10) + 1]>>

(***************************************************************************)
(* String literals of the source.                                          *)
(***************************************************************************)
S_http == <<"h", "t", "t", "p">>
S_https == <<"h", "t", "t", "p", "s">>
S_ftp == <<"f", "t", "p">>
S_ws == <<"w", "s">>
S_wss == <<"w", "s", "s">>
S_file == <<"f", "i", "l", "e">>
S_colonSlashSlash == <<":", "/", "/">>
S_slashSlash == <<"/", "/">>
S_slash == <<"/">>
S_httpPrefix == <<"h", "t", "t", "p", ":", "/", "/">>
S_httpsPrefix == <<"h", "t", "t", "p", "s", ":", "/", "/">>
S_httpsColon == <<"h", "t", "t", "p", "s", ":">>
S_proxySlash == <<"/", "p", "r", "o", "x", "y", "/">>
S_proxy == <<"/", "p", "r", "o", "x", "y">>
S_pct20 == <<"%", "2", "0">>

(***************************************************************************)
(* new URL(input): the WHATWG URL parser of Node, as far as the code reads *)
(* its result (protocol, host, pathname, search, hash).  Modelled: scheme  *)
(* detection and lowercasing, the slashes after a special scheme, userinfo,*)
(* host lowercasing and validation, bracketed IPv6 literals, the port and  *)
(* the removal of a default port, dot-segment removal, the "/" path of a   *)
(* special URL without a path, empty query and fragment, and the           *)
(* percent-encoding of spaces.  Not modelled: percent-escapes and IDNA in  *)
(* the host, IPv4 number forms, backslashes, %2e dot segments.             *)
(***************************************************************************)
SpecialSchemes == {S_http, S_https, S_ftp, S_ws, S_wss}

SchemeChars == Alpha \cup Digit \cup {"+", "-", "."}

HostChars == Lower \cup Digit \cup
             {"-", ".", "_", "~", "!", "$", "&", "'", "(", ")", "*", "+", ",", ";", "="}

Ipv6Chars == Digit \cup {"a", "b", "c", "d", "e", "f", ":"}

\* The port a special scheme implies, 0 for a scheme that has none.
DefaultPort(scheme) ==
  IF scheme \in {S_http, S_ws} THEN 80
  ELSE IF scheme \in {S_https, S_wss} THEN 443
  ELSE IF scheme = S_ftp THEN 21
  ELSE 0

\* The parser writes a space of a path, query or fragment as %20.
RECURSIVE EncodeSpaces(_)
EncodeSpaces(s) ==
  IF s = <<>> THEN <<>>
  ELSE (IF Head(s) = " " THEN S_pct20 ELSE <<Head(s)>>) \o EncodeSpaces(Tail(s))

\* The path state of the parser: "." segments are dropped, ".." removes the
\* segment before it, and a final "." or ".." leaves a trailing slash.
RECURSIVE RemoveDotSegments(_, _)
RemoveDotSegments(segs, out) ==
  IF segs = <<>> THEN out
  ELSE LET seg == Head(segs)
           last == Len(segs) = 1
           slash == IF last THEN << <<>> >> ELSE <<>>
       IN  IF seg = <<".", ".">>
           THEN RemoveDotSegments(Tail(segs),
                  (IF out = <<>> THEN out ELSE Take(out, Len(out) - 1)) \o slash)
           ELSE IF seg = <<".">>
           THEN RemoveDotSegments(Tail(segs), out \o slash)
           ELSE RemoveDotSegments(Tail(segs), Append(out, seg))

\* The pathname of a URL with an authority: "/" when the path is empty.
NormalizePath(pathRaw) ==
  IF pathRaw = <<>> THEN S_slash
  ELSE S_slash \o Join(RemoveDotSegments(Split(Drop(pathRaw, 1), "/"), <<>>), S_slash)

FailedURL ==
  [ok |-> FALSE, protocol |-> <<>>, username |-> <<>>, host |-> <<>>,
   hostname |-> <<>>, pathname |-> <<>>, search |-> <<>>, hash |-> <<>>]

\* The text before the first c of s (all of s when there is none) and the
\* text after it (empty when there is none).
Before(s, c) == IF IndexOf(s, c) = 0 THEN s ELSE Take(s, IndexOf(s, c) - 1)

After(s, c) == IF IndexOf(s, c) = 0 THEN <<>> ELSE Drop(s, IndexOf(s, c))

\* Path, query and fragment states: what follows the authority is cut at the
\* first "#" and then at the first "?".
URLTail(scheme, special, hasAuthority, userinfo, host, hostname, afterAuth) ==
  [ok |-> TRUE,
   protocol |-> scheme \o <<":">>,
   username |-> userinfo,
   host |-> host,
   hostname |-> hostname,
   pathname |-> IF special \/ (hasAuthority /\ Before(Before(afterAuth, "#"), "?") # <<>>)
                THEN EncodeSpaces(NormalizePath(Before(Before(afterAuth, "#"), "?")))
                ELSE EncodeSpaces(Before(Before(afterAuth, "#"), "?")),
   search |-> IF After(Before(afterAuth, "#"), "?") = <<>> THEN <<>>
              ELSE <<"?">> \o EncodeSpaces(After(Before(afterAuth, "#"), "?")),
   hash |-> IF After(afterAuth, "#") = <<>> THEN <<>>
            ELSE <<"#">> \o EncodeSpaces(After(afterAuth, "#"))]

\* Host state: an IPv6 literal in brackets, or a name of host characters that
\* is not empty for a special scheme.
HostOk(special, hostname) ==
  IF StartsWith(hostname, <<"[">>)
  THEN /\ IndexOf(hostname, "]") = Len(hostname)
       /\ Len(hostname) > 2
       /\ \A i \in 2..(Len(hostname) - 1) : hostname[i] \in Ipv6Chars
  ELSE /\ special => hostname # <<>>
       /\ \A i \in 1..Len(hostname) : hostname[i] \in HostChars

\* Port state: decimal digits, at most 65535.
PortOk(portRaw) ==
  /\ \A i \in 1..Len(portRaw) : portRaw[i] \in Digit
  /\ portRaw # <<>> => DigitsValue(portRaw) <= 65535

\* The port as the host property shows it: nothing for the default port.
PortSuffix(scheme, portRaw) ==
  IF portRaw = <<>> \/ DigitsValue(portRaw) = DefaultPort(scheme) THEN <<>>
  ELSE <<":">> \o NumberToString(DigitsValue(portRaw))

ParseHostname(scheme, special, userinfo, hostname, portRaw, afterAuth) ==
  IF ~(HostOk(special, hostname) /\ PortOk(portRaw)) THEN FailedURL
  ELSE URLTail(scheme, special, TRUE, userinfo,
               hostname \o PortSuffix(scheme, portRaw), hostname, afterAuth)

\* The index of the ":" that starts the port, 0 when there is no port.
PortColon(hostport) ==
  IF StartsWith(hostport, <<"[">>)
  THEN (IF /\ IndexOf(hostport, "]") # 0
           /\ Len(hostport) > IndexOf(hostport, "]")
           /\ hostport[IndexOf(hostport, "]") + 1] = ":"
        THEN IndexOf(hostport, "]") + 1 ELSE 0)
  ELSE IndexOf(hostport, ":")

ParseHostPort(scheme, special, userinfo, hostport, pc, afterAuth) ==
  ParseHostname(scheme, special, userinfo,
                IF special \/ scheme = S_file
                THEN ToLowerCase(IF pc = 0 THEN hostport ELSE Take(hostport, pc - 1))
                ELSE (IF pc = 0 THEN hostport ELSE Take(hostport, pc - 1)),
                IF pc = 0 THEN <<>> ELSE Drop(hostport, pc),
                afterAuth)

\* Authority state: the userinfo ends at the last "@".
ParseUserinfo(scheme, special, authority, at, afterAuth) ==
  ParseHostPort(scheme, special,
                IF at = 0 THEN <<>> ELSE Take(authority, at - 1),
                Drop(authority, at), PortColon(Drop(authority, at)), afterAuth)

ParseAuthority(scheme, special, authRest, ai) ==
  ParseUserinfo(scheme, special,
                IF ai = 0 THEN authRest ELSE Take(authRest, ai - 1),
                LastIndexOf(IF ai = 0 THEN authRest ELSE Take(authRest, ai - 1), "@"),
                IF ai = 0 THEN <<>> ELSE Drop(authRest, ai - 1))

\* After the scheme: a special scheme always has an authority, after any
\* number of slashes; another scheme has one after "//".
ParseAfterScheme(scheme, special, rest) ==
  IF special
  THEN ParseAuthority(scheme, special, Drop(rest, SpanLen(rest, {"/"})),
                      IndexOfAny(Drop(rest, SpanLen(rest, {"/"})), {"/", "?", "#"}))
  ELSE IF StartsWith(rest, S_slashSlash)
  THEN ParseAuthority(scheme, special, Drop(rest, 2),
                      IndexOfAny(Drop(rest, 2), {"/", "?", "#"}))
  ELSE URLTail(scheme, special, FALSE, <<>>, <<>>, <<>>, rest)

\* Scheme state: a letter, then scheme characters, up to the first ":".
ParseScheme(s, ci) ==
  IF ~(ci > 1 /\ s[1] \in Alpha /\ \A i \in 1..(ci - 1) : s[i] \in SchemeChars)
  THEN FailedURL
  ELSE ParseAfterScheme(ToLowerCase(Take(s, ci - 1)),
                        ToLowerCase(Take(s, ci - 1)) \in SpecialSchemes,
                        Drop(s, ci))

ParseTrimmed(input) == ParseScheme(input, IndexOf(input, ":"))

ParseURL(input) == ParseTrimmed(Trim(input))

(***************************************************************************)
(* Percent-encoding: encodeURIComponent and decodeURIComponent over the    *)
(* printable ASCII characters.  AsciiSeq[i] is the character of code       *)
(* 31 + i.  An escape of a byte of 0x80 and above is taken as malformed    *)
(* (multi-byte UTF-8 sequences are not modelled), an escape of a control   *)
(* character decodes to the one character "<ctl>"; "<bt>" stands for the   *)
(* backquote.                                                              *)
(***************************************************************************)
AsciiSeq == <<" ", "!", "\"", "#", "$", "%", "&", "'", "(", ")", "*", "+",
             ",", "-", ".", "/", "0", "1", "2", "3", "4", "5", "6", "7",
             "8", "9", ":", ";", "<", "=", ">", "?", "@", "A", "B", "C",
             "D", "E", "F", "G", "H", "I", "J", "K", "L", "M", "N", "O",
             "P", "Q", "R", "S", "T", "U", "V", "W", "X", "Y", "Z", "[",
             "\\", "]", "^", "_", "<bt>", "a", "b", "c", "d", "e", "f", "g",
             "h", "i", "j", "k", "l", "m", "n", "o", "p", "q", "r", "s",
             "t", "u", "v", "w", "x", "y", "z", "{", "|", "}", "~">>

HexSeq == <<"0","1","2","3","4","5","6","7","8","9","A","B","C","D","E","F">>

HexChars == Digit \cup {"a","b","c","d","e","f","A","B","C","D","E","F"}

\* The value of one hexadecimal digit, in either letter case.
HexValue(c) ==
  IF c \in Digit THEN (CHOOSE i \in 1..10 : DigitSeq[i] = c) - 1
  ELSE (CHOOSE i \in 11..16 : HexSeq[i] = c \/ LowerChar(HexSeq[i]) = c) - 1

\* The code of a printable ASCII character.
CharCode(c) == (CHOOSE i \in 1..95 : AsciiSeq[i] = c) + 31

\* The characters encodeURIComponent leaves as they are.
UriUnreserved == Alpha \cup Digit \cup {"-", "_", ".", "!", "~", "*", "'", "(", ")"}

\* encodeURIComponent.
RECURSIVE EncodeURIComponent(_)
EncodeURIComponent(s) ==
  IF s = <<>> THEN <<>>
  ELSE LET c == Head(s)
       IN  (IF c \in UriUnreserved THEN <<c>>
            ELSE <<"%", HexSeq[(CharCode(c) \div 16) + 1], HexSeq[(CharCode(c) % 16) + 1]>>)
           \o EncodeURIComponent(Tail(s))

\* Whether decodeURIComponent(s) returns (it throws URIError on a "%" that is
\* not followed by two hexadecimal digits, or that escapes a byte >= 0x80).
RECURSIVE WellEscaped(_)
WellEscaped(s) ==
  IF s = <<>> THEN TRUE
  ELSE IF Head(s) # "%" THEN WellEscaped(Tail(s))
  ELSE /\ Len(s) >= 3
       /\ s[2] \in HexChars
       /\ s[3] \in HexChars
       /\ HexValue(s[2]) < 8
       /\ WellEscaped(Drop(s, 3))

\* The value of decodeURIComponent(s) for a well-escaped s.
RECURSIVE Unescape(_)
Unescape(s) ==
  IF s = <<>> THEN <<>>
  ELSE IF Head(s) # "%" THEN <<Head(s)>> \o Unescape(Tail(s))
  ELSE LET code == 16 * HexValue(s[2]) + HexValue(s[3])
       IN  <<IF code \in 32..126 THEN AsciiSeq[code - 31] ELSE "<ctl>">>
           \o Unescape(Drop(s, 3))

(***************************************************************************)
(* The URL codec: rewriteURL, with url.resolve of Node's legacy url module *)
(* for a reference that is neither scheme-relative nor http(s)://.         *)
(***************************************************************************)
S_data == <<"d", "a", "t", "a", ":">>
S_javascript == <<"j", "a", "v", "a", "s", "c", "r", "i", "p", "t", ":">>
S_mailto == <<"m", "a", "i", "l", "t", "o", ":">>
S_tel == <<"t", "e", "l", ":">>
S_blob == <<"b", "l", "o", "b", ":">>
S_about == <<"a", "b", "o", "u", "t", ":">>
S_hash == <<"#">>

\* Whether s begins with a scheme, as url.parse decides it: /^[a-z0-9.+-]+:/i.
HasScheme(s) ==
  LET ci == IndexOf(s, ":")
  IN  ci > 1 /\ \A i \in 1..(ci - 1) : s[i] \in SchemeChars

\* url.resolve(baseUrl, relative) for an absolute http(s) baseUrl.  The result
\* keeps the dot segments of the reference: the caller parses it with new URL,
\* which removes them as url.resolve would.
RECURSIVE ResolveReference(_, _)
ResolveReference(base, relative) ==
  LET origin == base.protocol \o S_slashSlash \o base.host
      scheme == ToLowerCase(Before(relative, ":"))
      rest == After(relative, ":")
  IN  IF HasScheme(relative)
      THEN IF scheme \o <<":">> = base.protocol /\ ~StartsWith(rest, S_slashSlash)
           THEN ResolveReference(base, rest)
           ELSE scheme \o <<":">> \o rest
      ELSE IF StartsWith(relative, S_slashSlash) THEN base.protocol \o relative
      ELSE IF StartsWith(relative, S_slash) THEN origin \o relative
      ELSE IF StartsWith(relative, <<"?">>) THEN origin \o base.pathname \o relative
      ELSE IF StartsWith(relative, S_hash)
      THEN origin \o base.pathname \o base.search \o relative
      ELSE IF relative = <<>> THEN origin \o base.pathname \o base.search
      ELSE origin \o Take(base.pathname, LastIndexOf(base.pathname, "/")) \o relative

UrlResolve(baseUrl, relative) == ResolveReference(ParseURL(baseUrl), relative)

\* The URL types rewriteURL skips (src/server.js:138-143).
IsSkippedURL(u) ==
  \/ StartsWith(u, S_data)
  \/ StartsWith(u, S_javascript)
  \/ StartsWith(u, S_mailto)
  \/ StartsWith(u, S_tel)
  \/ u = S_hash
  \/ StartsWith(u, S_blob)

\* The absolute URL rewriteURL parses (src/server.js:151-157).
AbsoluteUrl(u, baseUrl) ==
  IF StartsWith(u, S_slashSlash) THEN S_httpsColon \o u
  ELSE IF StartsWith(u, S_httpPrefix) \/ StartsWith(u, S_httpsPrefix) THEN u
  ELSE UrlResolve(baseUrl, u)

\* An encoding that writes the hostname where the source writes the host, and
\* so loses the port.  C4 distinguishes it from EncodedPath.
EncodedPathHostname(parsedUrl, proxyBase) ==
  proxyBase \o S_proxySlash \o Take(parsedUrl.protocol, Len(parsedUrl.protocol) - 1)
    \o S_slash \o parsedUrl.hostname \o parsedUrl.pathname \o parsedUrl.search
    \o parsedUrl.hash

\* The path-form encoding of a parsed URL (src/server.js:164-165).
EncodedPath(parsedUrl, proxyBase) ==
  proxyBase \o S_proxySlash \o Take(parsedUrl.protocol, Len(parsedUrl.protocol) - 1)
    \o S_slash \o parsedUrl.host \o parsedUrl.pathname \o parsedUrl.search
    \o parsedUrl.hash

\* After the parse (src/server.js:160-171): the reference is returned as it
\* is when new URL throws.
RewriteParsed(u, parsedUrl, proxyBase) ==
  IF ~parsedUrl.ok THEN u ELSE EncodedPath(parsedUrl, proxyBase)

\* After the trim (src/server.js:135-157).
RewriteTrimmed(u, baseUrl, proxyBase) ==
  IF u = <<>> THEN u
  ELSE IF IsSkippedURL(u) THEN u
  ELSE RewriteParsed(u, ParseURL(AbsoluteUrl(u, baseUrl)), proxyBase)

rewriteURL(originalUrl, baseUrl, proxyBase) ==
  IF originalUrl = <<>> THEN originalUrl
  ELSE RewriteTrimmed(Trim(originalUrl), baseUrl, proxyBase)

(***************************************************************************)
(* What Express derives from the request line: req.path, the raw query     *)
(* string the handlers cut from req.url, and req.query.url as the qs       *)
(* parser decodes it.                                                      *)
(***************************************************************************)
S_urlEq == <<"u", "r", "l", "=">>
S_youtubeCom == <<"y", "o", "u", "t", "u", "b", "e", ".", "c", "o", "m">>
S_youtuBe == <<"y", "o", "u", "t", "u", ".", "b", "e">>
S_health == <<"/", "h", "e", "a", "l", "t", "h">>
S_healthSlash == <<"/", "h", "e", "a", "l", "t", "h", "/">>
S_httpSlash == <<"h", "t", "t", "p", "/">>
S_httpsSlash == <<"h", "t", "t", "p", "s", "/">>

\* req.path: the request target up to its first "?".
ReqPath(reqUrl) ==
  IF IndexOf(reqUrl, "?") = 0 THEN reqUrl ELSE Take(reqUrl, IndexOf(reqUrl, "?") - 1)

\* req.url.includes('?') ? req.url.substring(req.url.indexOf('?')) : ''
\* (src/server.js:611, 737, 790).
RawQueryString(reqUrl) ==
  IF IndexOf(reqUrl, "?") = 0 THEN <<>> ELSE Drop(reqUrl, IndexOf(reqUrl, "?") - 1)

\* "+" read as a space, as the query-string decoders do before unescaping.
PlusToSpace(s) == [i \in 1..Len(s) |-> IF s[i] = "+" THEN " " ELSE s[i]]

\* The decoder of the qs parser: the unescaped value, or the value as it is
\* when decodeURIComponent throws.
QsDecode(s) ==
  IF WellEscaped(PlusToSpace(s)) THEN Unescape(PlusToSpace(s)) ELSE PlusToSpace(s)

\* The value of the first url= parameter of a query string (without its "?"),
\* not yet decoded; <<>> when there is none.
RECURSIVE RawUrlParam(_)
RawUrlParam(params) ==
  IF params = <<>> THEN <<>>
  ELSE IF StartsWith(Head(params), S_urlEq) THEN Drop(Head(params), 4)
  ELSE RawUrlParam(Tail(params))

\* req.query.url (express query parser).
QueryUrl(reqUrl) ==
  IF IndexOf(reqUrl, "?") = 0 THEN <<>>
  ELSE QsDecode(RawUrlParam(Split(Drop(RawQueryString(reqUrl), 1), "&")))

\* The router decodes the parameter a route pattern captures with
\* decodeURIComponent and fails the request when that throws: for '/proxy*' the
\* parameter is the path after "/proxy", for '*' it is the whole path.
RouteParamDecodes(param) == WellEscaped(param)

\* Whether the path matches the route '/proxy*' (case-insensitive).
MatchesProxyRoute(path) == StartsWith(ToLowerCase(path), S_proxy)

(***************************************************************************)
(* The two regular expressions that recognise the path form.               *)
(***************************************************************************)
WordChars == Alpha \cup Digit \cup {"_"}

\* /^\/proxy\/(https?)\/([\w.-]+(?:\:\d+)?)(.*)$/ on req.path
\* (src/server.js:607): the groups protocol, host and path, matched from left
\* to right by PathMatch and the operators it is built from.
\* (?:\:\d+)? is the length of a ":" and digits at the start of s, 0 when
\* there is no such port.
PortLen(s) ==
  IF StartsWith(s, <<":">>) /\ SpanLen(Drop(s, 1), Digit) > 0
  THEN 1 + SpanLen(Drop(s, 1), Digit) ELSE 0

PathMatchGroups(ok, protocol, rest, hostLen) ==
  [ok |-> ok, protocol |-> protocol, host |-> Take(rest, hostLen),
   path |-> Drop(rest, hostLen)]

PathMatchHost(prefixOk, protocol, rest, n) ==
  PathMatchGroups(prefixOk /\ n > 0, protocol, rest, n + PortLen(Drop(rest, n)))

PathMatchProtocol(fullPath, protocol) ==
  PathMatchHost(StartsWith(fullPath, S_proxySlash \o protocol \o S_slash),
                protocol,
                Drop(fullPath, Len(S_proxySlash) + Len(protocol) + 1),
                SpanLen(Drop(fullPath, Len(S_proxySlash) + Len(protocol) + 1),
                        WordChars \cup {".", "-"}))

PathMatch(fullPath) ==
  PathMatchProtocol(fullPath,
                    IF StartsWith(Drop(fullPath, Len(S_proxySlash)), S_httpsSlash)
                    THEN S_https ELSE S_http)

\* /^\/proxy\/(https?)\/([\w.-]+(?:\:\d+)?)(\/.*)?$/ on the Referer's pathname
\* (src/server.js:733): after the host comes a "/" or the end.
SlashOrEnd(m) ==
  [m EXCEPT !.ok = m.ok /\ (m.path = <<>> \/ StartsWith(m.path, S_slash))]

RefererPathMatch(pathname) == SlashOrEnd(PathMatch(pathname))

(***************************************************************************)
(* The request handlers.  A request is a record                            *)
(*   [method, url, referer, cookie, authorization, accept,                 *)
(*    protocol, host, xfProto, xfHost]                                     *)
(* where url is the request target of the request line, referer, protocol, *)
(* host, xfProto and xfHost are strings (<<>> when the header is absent),  *)
(* cookie is the list of the cookies of the Cookie header, and             *)
(* authorization and accept are header values ("" when absent).            *)
(*                                                                         *)
(* A handler either sends a response or calls proxyRequest; its outcome is *)
(* a record with kind "respond" or "fetch".                                *)
(***************************************************************************)
S_rootAccept == "text/html,application/xhtml+xml,*/*;q=0.8"
S_anyAccept == "*/*"

\* getProxyBase (src/server.js:43-47).
getProxyBase(req) ==
  (IF req.xfProto # <<>> THEN req.xfProto ELSE req.protocol)
    \o S_colonSlashSlash
    \o (IF req.xfHost # <<>> THEN req.xfHost ELSE req.host)

Respond(status, error, provided) ==
  [kind |-> "respond", status |-> status, error |-> error, provided |-> provided]

CallProxyRequest(options, targetUrl, proxyBase) ==
  [kind |-> "fetch", options |-> options, targetUrl |-> targetUrl,
   proxyBase |-> proxyBase]

\* A resolver that rebuilds the path-form target from the decoded path, as one
\* reading req.params would.  C9 distinguishes it from ProxyTargetUrl.
TargetFromDecodedPath(req, pathMatch, queryUrl) ==
  IF pathMatch.ok
  THEN pathMatch.protocol \o S_colonSlashSlash \o pathMatch.host
         \o (IF pathMatch.path # <<>>
             THEN (IF WellEscaped(pathMatch.path) THEN Unescape(pathMatch.path)
                   ELSE pathMatch.path)
             ELSE S_slash)
         \o RawQueryString(req.url)
  ELSE IF queryUrl # <<>>
  THEN (IF WellEscaped(queryUrl) THEN Unescape(queryUrl) ELSE queryUrl)
  ELSE <<>>

ProxyTargetUrlDecodedPath(req) ==
  TargetFromDecodedPath(req, PathMatch(ReqPath(req.url)), QueryUrl(req.url))

\* The target of the '/proxy*' handler before validation (src/server.js:601-620):
\* the path form first, then the url parameter, decoded once more when
\* decodeURIComponent does not throw; <<>> when there is neither.
TargetFrom(req, pathMatch, queryUrl) ==
  IF pathMatch.ok
  THEN pathMatch.protocol \o S_colonSlashSlash \o pathMatch.host
         \o (IF pathMatch.path # <<>> THEN pathMatch.path ELSE S_slash)
         \o RawQueryString(req.url)
  ELSE IF queryUrl # <<>>
  THEN (IF WellEscaped(queryUrl) THEN Unescape(queryUrl) ELSE queryUrl)
  ELSE <<>>

ProxyTargetUrl(req) == TargetFrom(req, PathMatch(ReqPath(req.url)), QueryUrl(req.url))

\* targetUrl.includes('youtube.com') || targetUrl.includes('youtu.be')
\* (src/server.js:641): handleYouTube then sends a page of its own.
IsYouTube(targetUrl) ==
  Includes(targetUrl, S_youtubeCom) \/ Includes(targetUrl, S_youtuBe)

\* The options of the '/proxy*' handler (src/server.js:656-691).
OptionsFor(req, targetUrl, targetUrlObj) ==
  [url |-> targetUrl,
   method |-> req.method,
   accept |-> IF req.accept # "" THEN req.accept ELSE S_rootAccept,
   referer |-> targetUrlObj.protocol \o S_slashSlash \o targetUrlObj.host \o S_slash,
   origin |-> targetUrlObj.protocol \o S_slashSlash \o targetUrlObj.host,
   cookie |-> req.cookie,
   authorization |-> req.authorization,
   jar |-> TRUE]

ProxyOptions(req, targetUrl) == OptionsFor(req, targetUrl, ParseURL(targetUrl))

\* app.all('/proxy*') (src/server.js:600-719).
ProxyHandlerFor(req, targetUrl) ==
  IF targetUrl = <<>> THEN Respond(400, "Missing URL", <<>>)
  ELSE IF ~ParseURL(targetUrl).ok THEN Respond(400, "Invalid URL", targetUrl)
  ELSE IF IsYouTube(targetUrl) THEN Respond(200, "", <<>>)
  ELSE CallProxyRequest(ProxyOptions(req, targetUrl), targetUrl, getProxyBase(req))

ProxyHandler(req) == ProxyHandlerFor(req, ProxyTargetUrl(req))

\* The options of the catch-all handler (src/server.js:742-758, 795-811).
CatchAllOptions(req, targetUrl, upstreamOrigin) ==
  [url |-> targetUrl,
   method |-> req.method,
   accept |-> IF req.accept # "" THEN req.accept ELSE S_anyAccept,
   referer |-> upstreamOrigin,
   origin |-> upstreamOrigin,
   cookie |-> <<>>,
   authorization |-> "",
   jar |-> FALSE]

\* URLSearchParams.get('url') of the Referer: decoded once, and left as it is
\* where an escape is malformed.
RefererUrlParam(search) ==
  IF search = <<>> THEN <<>> ELSE QsDecode(RawUrlParam(Split(Drop(search, 1), "&")))

NotFound == Respond(404, "Not found", <<>>)

\* app.all('*') (src/server.js:722-855): CatchAllHandler, built from the
\* operators below.  The target is spliced from an upstream origin and the request's own path and
\* raw query (src/server.js:737, 790).
SpliceOnto(req, upstreamOrigin, targetUrl) ==
  CallProxyRequest(CatchAllOptions(req, targetUrl, upstreamOrigin), targetUrl,
                   getProxyBase(req))

\* A query-form Referer branch that answers a url parameter that does not
\* parse as the '/proxy*' handler answers one.  C14 distinguishes it from
\* RefererQueryForm.
RefererQueryFormInvalidUrl(req, refererUrl, urlParam, baseUrl) ==
  IF urlParam # <<>> /\ Includes(refererUrl.pathname, S_proxy)
  THEN (IF baseUrl.ok
        THEN SpliceOnto(req, baseUrl.protocol \o S_slashSlash \o baseUrl.host,
                        baseUrl.protocol \o S_slashSlash \o baseUrl.host
                          \o ReqPath(req.url) \o RawQueryString(req.url))
        ELSE Respond(400, "Invalid URL", urlParam))
  ELSE NotFound

\* The query form of the Referer (src/server.js:786-794).
RefererQueryForm(req, refererUrl, urlParam, baseUrl) ==
  IF urlParam # <<>> /\ Includes(refererUrl.pathname, S_proxy) /\ baseUrl.ok
  THEN SpliceOnto(req, baseUrl.protocol \o S_slashSlash \o baseUrl.host,
                  baseUrl.protocol \o S_slashSlash \o baseUrl.host
                    \o ReqPath(req.url) \o RawQueryString(req.url))
  ELSE NotFound

\* The path form of the Referer first (src/server.js:733-741).
RefererForms(req, refererUrl, pathMatch) ==
  IF pathMatch.ok
  THEN SpliceOnto(req, pathMatch.protocol \o S_colonSlashSlash \o pathMatch.host,
                  pathMatch.protocol \o S_colonSlashSlash \o pathMatch.host
                    \o ReqPath(req.url) \o RawQueryString(req.url))
  ELSE RefererQueryForm(req, refererUrl, RefererUrlParam(refererUrl.search),
                        ParseURL(RefererUrlParam(refererUrl.search)))

CatchAllReferer(req, refererUrl) ==
  IF req.referer = <<>> \/ ~refererUrl.ok THEN NotFound
  ELSE RefererForms(req, refererUrl, RefererPathMatch(refererUrl.pathname))

CatchAllHandler(req) == CatchAllReferer(req, ParseURL(req.referer))

\* The middleware and routes in the order they are registered
\* (src/server.js:15-40, 600, 722, 941-947): the CORS middleware answers
\* OPTIONS, GET / and GET /health answer themselves, a route whose parameter
\* does not decode ends in the error handler.
HandleRequest(req) ==
  LET path == ReqPath(req.url)
  IN  IF req.method = "OPTIONS" THEN Respond(200, "", <<>>)
      ELSE IF req.method = "GET" /\ path = S_slash THEN Respond(200, "", <<>>)
      ELSE IF req.method = "GET" /\ ToLowerCase(path) \in {S_health, S_healthSlash}
      THEN Respond(200, "", <<>>)
      ELSE IF MatchesProxyRoute(path)
      THEN (IF RouteParamDecodes(Drop(path, Len(S_proxy))) THEN ProxyHandler(req)
            ELSE Respond(500, "Internal server error", <<>>))
      ELSE IF RouteParamDecodes(path) THEN CatchAllHandler(req)
      ELSE Respond(500, "Internal server error", <<>>)

(***************************************************************************)
(* The HTML rewriter.  A document is what cheerio.load builds and $.html() *)
(* writes back: a record [head, body] of two lists of elements.  An        *)
(* element is a record [tag, attrs, shim]: attrs maps attribute names to   *)
(* their values, and shim is <<>> except for the injected script, where it *)
(* holds the three literals the script template is filled with.            *)
(***************************************************************************)
S_referrer == <<"r", "e", "f", "e", "r", "r", "e", "r">>
S_unsafeUrl == <<"u", "n", "s", "a", "f", "e", "-", "u", "r", "l">>
S_csp == <<"C", "o", "n", "t", "e", "n", "t", "-", "S", "e", "c", "u", "r", "i", "t", "y", "-", "P", "o", "l", "i", "c", "y">>
S_xfo == <<"X", "-", "F", "r", "a", "m", "e", "-", "O", "p", "t", "i", "o", "n", "s">>

HasAttr(el, name) == name \in DOMAIN el.attrs

\* The selectors $('meta[http-equiv="Content-Security-Policy"]'),
\* $('meta[http-equiv="X-Frame-Options"]') and $('meta[name="referrer"]')
\* (src/server.js:180-182).
IsRemovedMeta(el) ==
  /\ el.tag = "meta"
  /\ \/ HasAttr(el, "http-equiv") /\ el.attrs["http-equiv"] \in {S_csp, S_xfo}
     \/ HasAttr(el, "name") /\ el.attrs["name"] = S_referrer

\* <meta name="referrer" content="unsafe-url"> (src/server.js:187-189).
ReferrerMeta ==
  [tag |-> "meta",
   attrs |-> ("name" :> S_referrer) @@ ("content" :> S_unsafeUrl),
   shim |-> <<>>]

\* The injected script with its literals proxyBase, currentProtocol and
\* currentHost (src/server.js:192-197).
InjectedScript(parsedBase, proxyBase) ==
  [tag |-> "script",
   attrs |-> <<>>,
   shim |-> <<proxyBase, Take(parsedBase.protocol, Len(parsedBase.protocol) - 1),
              parsedBase.host>>]

\* The attribute each selector of src/server.js:308-366 rewrites with
\* rewriteURL, "" when the element is selected for none.
RewrittenAttr(el) ==
  IF el.tag \in {"a", "link"} /\ HasAttr(el, "href") THEN "href"
  ELSE IF el.tag \in {"img", "source", "script", "iframe", "video", "audio"}
          /\ HasAttr(el, "src") THEN "src"
  ELSE IF el.tag = "form" /\ HasAttr(el, "action") THEN "action"
  ELSE ""

\* s.trim().split(/\s+/) of one srcset candidate.
RECURSIVE SplitSpaces(_)
SplitSpaces(s) ==
  LET i == IndexOf(s, " ")
  IN  IF i = 0 THEN <<s>>
      ELSE <<Take(s, i - 1)>> \o SplitSpaces(TrimLeft(Drop(s, i)))

\* One srcset candidate: its leftmost token rewritten, the parts joined by " ".
RewriteCandidate(s, baseUrl, proxyBase) ==
  LET parts == SplitSpaces(Trim(s))
  IN  Join(<<rewriteURL(parts[1], baseUrl, proxyBase)>> \o Tail(parts), <<" ">>)

\* The srcset rewrite (src/server.js:327-331).
RewriteSrcset(srcset, baseUrl, proxyBase) ==
  LET cands == Split(srcset, ",")
  IN  Join([i \in 1..Len(cands) |-> RewriteCandidate(cands[i], baseUrl, proxyBase)],
           <<",", " ">>)

\* What the .each callbacks do to one element: the attribute of its selector,
\* then srcset, each only when its value is not empty.
RewriteElement(el, baseUrl, proxyBase) ==
  LET a == RewrittenAttr(el)
      attrs1 == IF a # "" /\ el.attrs[a] # <<>>
                THEN [el.attrs EXCEPT ![a] = rewriteURL(el.attrs[a], baseUrl, proxyBase)]
                ELSE el.attrs
      attrs2 == IF HasAttr(el, "srcset") /\ el.attrs["srcset"] # <<>>
                THEN [attrs1 EXCEPT
                        !["srcset"] = RewriteSrcset(el.attrs["srcset"], baseUrl, proxyBase)]
                ELSE attrs1
  IN  [el EXCEPT !.attrs = attrs2]

RewriteElements(els, baseUrl, proxyBase) ==
  [i \in 1..Len(els) |-> RewriteElement(els[i], baseUrl, proxyBase)]

RemoveMetas(els) == SelectSeq(els, LAMBDA el : ~IsRemovedMeta(el))

\* rewriteHTML (src/server.js:175-373): the document is returned as it came
\* when new URL(baseUrl) throws.
RewriteDocument(html, baseUrl, parsedBase, proxyBase) ==
  IF ~parsedBase.ok THEN html
  ELSE [head |-> RewriteElements(<<InjectedScript(parsedBase, proxyBase), ReferrerMeta>>
                                   \o RemoveMetas(html.head),
                                 baseUrl, proxyBase),
        body |-> RewriteElements(RemoveMetas(html.body), baseUrl, proxyBase)]

rewriteHTML(html, baseUrl, proxyBase) ==
  RewriteDocument(html, baseUrl, ParseURL(baseUrl), proxyBase)

(***************************************************************************)
(* The CSS rewriter: css.replace with                                      *)
(*   /url\s*\(\s*(['"]?)([^'")]+)\1\s*\)/gi                                *)
(* computed character by character (src/server.js:376-385).                *)
(***************************************************************************)
S_url == <<"u", "r", "l">>
S_urlOpen == <<"u", "r", "l", "(">>

CssStops == {"'", "\"", ")"}

\* The match of the regular expression at the start of s: whether it matches,
\* the quote group, the url group and the length of the match.
CssMatchGroups(ok, quote, urlPath, afterQuote, length) ==
  [ok |-> ok /\ StartsWith(Drop(afterQuote, SpanLen(afterQuote, {" "})), <<")">>),
   quote |-> quote,
   urlPath |-> urlPath,
   length |-> length + SpanLen(afterQuote, {" "}) + 1]

\* ([^'")]+)\1 : the url group of n characters and the closing quote.
CssMatchBody(ok, quote, bodyFrom, n, length) ==
  CssMatchGroups(ok /\ n > 0 /\ StartsWith(Drop(bodyFrom, n), quote),
                 quote, Take(bodyFrom, n),
                 Drop(bodyFrom, n + Len(quote)), length + n + Len(quote))

\* (['"]?) : the quote group.
CssMatchQuote(ok, afterParen, q0, length) ==
  IF q0 # <<>> /\ q0[1] \in {"'", "\""}
  THEN CssMatchBody(ok, <<q0[1]>>, Tail(q0),
                    IF IndexOfAny(Tail(q0), CssStops) = 0 THEN Len(Tail(q0))
                    ELSE IndexOfAny(Tail(q0), CssStops) - 1,
                    length + (Len(afterParen) - Len(q0)) + 1)
  ELSE CssMatchBody(ok, <<>>, afterParen,
                    IF IndexOfAny(afterParen, CssStops) = 0 THEN Len(afterParen)
                    ELSE IndexOfAny(afterParen, CssStops) - 1,
                    length)

\* url\s*\(\s* : w1 blanks before the parenthesis.
CssMatchOpen(s, w1) ==
  CssMatchQuote(/\ ToLowerCase(Take(s, 3)) = S_url
                /\ Len(s) > 3 + w1
                /\ s[3 + w1 + 1] = "(",
                Drop(s, 3 + w1 + 1),
                TrimLeft(Drop(s, 3 + w1 + 1)),
                3 + w1 + 1)

CssUrlMatch(s) == CssMatchOpen(s, SpanLen(Drop(s, 3), {" "}))

RECURSIVE rewriteCSS(_, _, _)
RewriteCssAt(css, m, baseUrl, proxyBase) ==
  IF m.ok
  THEN S_urlOpen \o m.quote \o rewriteURL(Trim(m.urlPath), baseUrl, proxyBase)
         \o m.quote \o <<")">> \o rewriteCSS(Drop(css, m.length), baseUrl, proxyBase)
  ELSE <<Head(css)>> \o rewriteCSS(Tail(css), baseUrl, proxyBase)

rewriteCSS(css, baseUrl, proxyBase) ==
  IF css = <<>> THEN <<>> ELSE RewriteCssAt(css, CssUrlMatch(css), baseUrl, proxyBase)

(***************************************************************************)
(* The response pipeline: the callback of proxyRequest.  An upstream       *)
(* response is a record [statusCode, rawHeaders, setCookie, contentType,   *)
(* body]: rawHeaders is the set of <<name, value>> pairs as the upstream   *)
(* wrote them, setCookie the list of its Set-Cookie values, contentType    *)
(* its Content-Type (<<>> when absent).  The response sent to the client   *)
(* is a record [status, headers, body, error], headers mapping lowercased  *)
(* names to values, as the header store of Node's ServerResponse does.     *)
(***************************************************************************)
H_csp == <<"c", "o", "n", "t", "e", "n", "t", "-", "s", "e", "c", "u", "r", "i", "t", "y", "-", "p", "o", "l", "i", "c", "y">>
H_xfo == <<"x", "-", "f", "r", "a", "m", "e", "-", "o", "p", "t", "i", "o", "n", "s">>
H_contentEncoding == <<"c", "o", "n", "t", "e", "n", "t", "-", "e", "n", "c", "o", "d", "i", "n", "g">>
H_transferEncoding == <<"t", "r", "a", "n", "s", "f", "e", "r", "-", "e", "n", "c", "o", "d", "i", "n", "g">>
H_referrerPolicy == <<"r", "e", "f", "e", "r", "r", "e", "r", "-", "p", "o", "l", "i", "c", "y">>
H_acao == <<"a", "c", "c", "e", "s", "s", "-", "c", "o", "n", "t", "r", "o", "l", "-", "a", "l", "l", "o", "w", "-", "o", "r", "i", "g", "i", "n">>
H_acac == <<"a", "c", "c", "e", "s", "s", "-", "c", "o", "n", "t", "r", "o", "l", "-", "a", "l", "l", "o", "w", "-", "c", "r", "e", "d", "e", "n", "t", "i", "a", "l", "s">>
H_setCookie == <<"s", "e", "t", "-", "c", "o", "o", "k", "i", "e">>
H_contentType == <<"c", "o", "n", "t", "e", "n", "t", "-", "t", "y", "p", "e">>
S_textHtml == <<"t", "e", "x", "t", "/", "h", "t", "m", "l">>
S_textCss == <<"t", "e", "x", "t", "/", "c", "s", "s">>

\* response.headers: Node's http parser lowercases the names it receives.
IncomingHeaders(response) ==
  LET names == {ToLowerCase(h[1]) : h \in response.rawHeaders}
      plain == [k \in names |->
                  (CHOOSE h \in response.rawHeaders : ToLowerCase(h[1]) = k)[2]]
      cookies == IF response.setCookie = <<>> THEN <<>>
                 ELSE (H_setCookie :> response.setCookie)
      ctype == IF response.contentType = <<>> THEN <<>>
               ELSE (H_contentType :> response.contentType)
  IN  cookies @@ ctype @@ plain

\* res.set(field, value): the header store is keyed by the lowercased name.
SetHeader(headers, field, value) == (ToLowerCase(field) :> value) @@ headers

\* The headers the CORS middleware sets on every response (src/server.js:15-20).
CorsHeaders ==
  (H_acao :> "*") @@ (H_acac :> "true")

\* A filter that forgets the encoding headers: it blocks only the
\* framing and referrer policy headers.  C1 distinguishes it from IsCopiedHeader.
IsCopiedHeaderPolicyOnly(key) ==
  LET lowerKey == ToLowerCase(key)
  IN  /\ lowerKey # H_xfo
      /\ lowerKey # H_referrerPolicy

\* The test of the copy loop (src/server.js:880-885).
IsCopiedHeader(key) ==
  LET lowerKey == ToLowerCase(key)
  IN  /\ lowerKey # H_csp
      /\ lowerKey # H_xfo
      /\ lowerKey # H_contentEncoding
      /\ lowerKey # H_transferEncoding
      /\ lowerKey # H_referrerPolicy

\* The header store after src/server.js:879-899.
ProxyResponseHeaders(upstreamHeaders) ==
  LET copied == [k \in {k \in DOMAIN upstreamHeaders : IsCopiedHeader(k)} |->
                   upstreamHeaders[k]] @@ CorsHeaders
      stamped == SetHeader(SetHeader(SetHeader(copied,
                   H_acao, "*"), H_xfo, "ALLOWALL"), H_referrerPolicy, "unsafe-url")
  IN  IF H_setCookie \in DOMAIN upstreamHeaders
      THEN SetHeader(stamped, H_setCookie, upstreamHeaders[H_setCookie])
      ELSE stamped

\* The body the callback sends (src/server.js:901-927): rewritten HTML,
\* rewritten CSS, or the upstream body as it came.
ProxyResponseBody(contentType, body, targetUrl, proxyBase) ==
  IF Includes(contentType, S_textHtml)
  THEN [body EXCEPT !.html = rewriteHTML(body.html, targetUrl, proxyBase)]
  ELSE IF Includes(contentType, S_textCss)
  THEN [body EXCEPT !.css = rewriteCSS(body.css, targetUrl, proxyBase)]
  ELSE body

\* The response on an upstream reply (src/server.js:872-927).
ResponseWith(response, upstreamHeaders, targetUrl, proxyBase) ==
  [status |-> response.statusCode,
   headers |-> ProxyResponseHeaders(upstreamHeaders),
   body |-> ProxyResponseBody(IF H_contentType \in DOMAIN upstreamHeaders
                              THEN upstreamHeaders[H_contentType] ELSE <<>>,
                              response.body, targetUrl, proxyBase),
   error |-> ""]

ProxyResponse(response, targetUrl, proxyBase) ==
  ResponseWith(response, IncomingHeaders(response), targetUrl, proxyBase)

NoBody == [html |-> [head |-> <<>>, body |-> <<>>], css |-> <<>>, bytes |-> ""]

\* An error callback that grades the failure as the status table of a gateway
\* would (404 unknown host, 504 timeout, 502 otherwise).  C7 distinguishes it
\* from ProxyErrorResponse.
ProxyErrorResponseGraded(error) ==
  [status |-> IF error = "ENOTFOUND" THEN 404
              ELSE IF error = "ETIMEDOUT" THEN 504 ELSE 502,
   headers |-> CorsHeaders, body |-> NoBody, error |-> "Failed to fetch URL"]

\* The response on a failed fetch, whatever the failure (src/server.js:860-866).
ProxyErrorResponse(error) ==
  [status |-> 502, headers |-> CorsHeaders, body |-> NoBody,
   error |-> "Failed to fetch URL"]

\* The response a handler sends itself (src/server.js:22-40, 624-645, 850-854,
\* 941-947).
HandlerResponse(outcome) ==
  [status |-> outcome.status, headers |-> CorsHeaders, body |-> NoBody,
   error |-> outcome.error]

(***************************************************************************)
(* The cookie jar of the request library.  options.jar = true makes every  *)
(* request use the one jar of the process: the cookies it holds for the    *)
(* host of the URL are added to the Cookie header, and the Set-Cookie      *)
(* values of the response are stored in it under that host.  A Set-Cookie  *)
(* value is a record [pair, attrs], e.g. pair "sid=abc", attrs "; Path=/". *)
(***************************************************************************)
JarCookies(jarNow, targetUrl) ==
  LET hostname == ParseURL(targetUrl).hostname
      held == SelectSeq(jarNow, LAMBDA c : c.domain = hostname)
  IN  [i \in 1..Len(held) |-> held[i].pair]

\* The request put on the wire for the options a handler built
\* (src/server.js:680, 859).
WireRequest(options, jarNow) ==
  [url |-> options.url,
   method |-> options.method,
   accept |-> options.accept,
   referer |-> options.referer,
   origin |-> options.origin,
   authorization |-> options.authorization,
   cookie |-> IF options.jar THEN options.cookie \o JarCookies(jarNow, options.url)
              ELSE options.cookie]

\* The jar after a response to a request for targetUrl.
RECURSIVE StoreCookies(_, _, _)
StoreCookies(jarNow, setCookie, hostname) ==
  IF setCookie = <<>> THEN jarNow
  ELSE LET c == [domain |-> hostname, pair |-> Head(setCookie).pair]
       IN  StoreCookies(IF \E i \in 1..Len(jarNow) : jarNow[i] = c THEN jarNow
                        ELSE Append(jarNow, c),
                        Tail(setCookie), hostname)

JarAfter(jarNow, options, response) ==
  IF options.jar
  THEN StoreCookies(jarNow, response.setCookie, ParseURL(options.url).hostname)
  ELSE jarNow

(***************************************************************************)
(* The server as a state machine.                                          *)
(***************************************************************************)
VARIABLES
  inbound,    \* the requests received, in the order of their arrival
  stage,      \* per request: "fetching" or "done"
  fetches,    \* per request: the outcome of its handler
  outbound,   \* per request: the upstream request put on the wire, or NoRequest
  replies,    \* per request: what the upstream fetch ended with, or NoReply
  responses,  \* per request: the response sent to the client, or NoResponse
  jar,        \* the cookie jar of the process
  hops,       \* per request: the redirects its fetch has followed so far
  closed,     \* per request: TRUE once the client has gone while it was fetching
  sends,      \* per request: the status of every response sent for it, in order
  calc        \* the function applications of the codec and rewriter checks

vars == <<inbound, stage, fetches, outbound, replies, responses, jar, hops, closed, sends, calc>>

NoRequest == [url |-> <<>>]
NoReply == [kind |-> "none"]
NoResponse == [status |-> 0]
NoCalc == [op |-> "none"]

MaxRequests == 2

Init ==
  /\ inbound = <<>>
  /\ stage = <<>>
  /\ fetches = <<>>
  /\ outbound = <<>>
  /\ replies = <<>>
  /\ responses = <<>>
  /\ jar = <<>>
  /\ hops = <<>>
  /\ closed = <<>>
  /\ sends = <<>>
  /\ calc = NoCalc

\* The responses a handler sends before it returns: one when it answers
\* itself (res.sendStatus, res.json or res.send followed by a return,
\* src/server.js:22, 30, 39, 395-419, 626-664, 851), none when it ends with
\* the call of proxyRequest (src/server.js:719, 849), whose callback answers.
HandlerSends(outcome) ==
  IF outcome.kind = "respond" THEN <<outcome.status>> ELSE <<>>

\* The callback of proxyRequest with the return of its error branch left out:
\* it would go on to the branch after it and send again.
CallbackSendsNoReturn(reply) ==
  IF reply.kind = "error" THEN <<502, 502>> ELSE <<reply.response.statusCode>>

\* The responses the callback of proxyRequest sends (src/server.js:859-927):
\* the 502 of the error branch, which returns, or the body under the status
\* of the upstream, sent by exactly one res.send: the one of the branch of
\* the content type, or the one of the catch when that branch threw before
\* its own.
CallbackSends(reply) ==
  IF reply.kind = "error" THEN <<502>> ELSE <<reply.response.statusCode>>

\* A request arrives and its handler runs to its end: it sends a response
\* itself, or it calls proxyRequest, which starts the upstream fetch.
Handled(req, outcome) ==
  /\ inbound' = Append(inbound, req)
  /\ fetches' = Append(fetches, outcome)
  /\ replies' = Append(replies, NoReply)
  /\ IF outcome.kind = "fetch"
     THEN /\ stage' = Append(stage, "fetching")
          /\ outbound' = Append(outbound, WireRequest(outcome.options, jar))
          /\ responses' = Append(responses, NoResponse)
     ELSE /\ stage' = Append(stage, "done")
          /\ outbound' = Append(outbound, NoRequest)
          /\ responses' = Append(responses, HandlerResponse(outcome))
  /\ hops' = Append(hops, <<>>)
  /\ closed' = Append(closed, FALSE)
  /\ sends' = Append(sends, HandlerSends(outcome))
  /\ UNCHANGED <<jar, calc>>

Receive(req) == Handled(req, HandleRequest(req))

\* maxRedirects of the options (src/server.js:677).
maxRedirects == 5

\* The URL the fetch of request i is at: the URL of its options, or the one
\* the last redirect it followed led to.
FinalUrl(i) ==
  IF hops[i] = <<>> THEN fetches[i].options.url ELSE hops[i][Len(hops[i])].url

\* The upstream answers the fetch of request i: the callback of proxyRequest
\* runs with the response.
UpstreamResponds(i, response) ==
  /\ stage[i] = "fetching"
  /\ stage' = [stage EXCEPT ![i] = "done"]
  /\ replies' = [replies EXCEPT ![i] = [kind |-> "response", response |-> response]]
  /\ responses' = [responses EXCEPT
                     ![i] = ProxyResponse(response, fetches[i].targetUrl,
                                          fetches[i].proxyBase)]
  /\ sends' = [sends EXCEPT ![i] = @ \o CallbackSends(replies'[i])]
  /\ jar' = JarAfter(jar, [fetches[i].options EXCEPT !.url = FinalUrl(i)], response)
  /\ UNCHANGED <<inbound, fetches, outbound, hops, closed, calc>>

\* The fetch of request i fails: the callback runs with an error.
UpstreamFails(i, error) ==
  /\ stage[i] = "fetching"
  /\ stage' = [stage EXCEPT ![i] = "done"]
  /\ replies' = [replies EXCEPT ![i] = [kind |-> "error", error |-> error]]
  /\ responses' = [responses EXCEPT ![i] = ProxyErrorResponse(error)]
  /\ sends' = [sends EXCEPT ![i] = @ \o CallbackSends(replies'[i])]
  /\ UNCHANGED <<inbound, fetches, outbound, jar, hops, closed, calc>>

\* The upstream answers the fetch of request i with a redirect
\* (followRedirect: true, src/server.js:676): the request library follows it
\* for a GET or a HEAD without calling back, keeping the Set-Cookie values of the
\* redirect in the jar when the options have one; past maxRedirects it gives
\* up and the callback runs with an error.
UpstreamRedirects(i, redirect) ==
  /\ stage[i] = "fetching"
  /\ fetches[i].options.method \in {"GET", "HEAD"}
  /\ IF Len(hops[i]) < maxRedirects
     THEN /\ hops' = [hops EXCEPT
                        ![i] = Append(@, [url |-> UrlResolve(FinalUrl(i), redirect.location),
                                          setCookie |-> redirect.setCookie])]
          /\ jar' = JarAfter(jar, [fetches[i].options EXCEPT !.url = FinalUrl(i)], redirect)
          /\ UNCHANGED <<stage, replies, responses, sends>>
     ELSE /\ stage' = [stage EXCEPT ![i] = "done"]
          /\ replies' = [replies EXCEPT ![i] = [kind |-> "error", error |-> "ERR_MAX_REDIRECTS"]]
          /\ responses' = [responses EXCEPT ![i] = ProxyErrorResponse("ERR_MAX_REDIRECTS")]
          /\ sends' = [sends EXCEPT ![i] = @ \o CallbackSends(replies'[i])]
          /\ UNCHANGED <<jar, hops>>
  /\ UNCHANGED <<inbound, fetches, outbound, closed, calc>>

\* The client of request i goes away while its fetch is in flight.  No
\* handler listens for the close of the request or of the response
\* (src/server.js:600-929), so nothing but the connection changes.
ClientDisconnects(i) ==
  /\ stage[i] = "fetching"
  /\ ~closed[i]
  /\ closed' = [closed EXCEPT ![i] = TRUE]
  /\ UNCHANGED <<inbound, stage, fetches, outbound, replies, responses, jar, hops, sends, calc>>

(***************************************************************************)
(* The inputs of the server specification.                                 *)
(***************************************************************************)
U_proxyBaseHost == <<"p">>
U_pathForm == <<"/", "p", "r", "o", "x", "y", "/", "h", "t", "t", "p", "s", "/", "e", ".", "c", "o", "m", "/">>
U_bare == <<"/", "a", ".", "c", "s", "s">>
U_refererPath == <<"h", "t", "t", "p", ":", "/", "/", "p", "/", "p", "r", "o", "x", "y", "/", "h", "t", "t", "p", "s", "/", "e", ".", "c", "o", "m", "/", "p", "a", "g", "e">>

Request(method, url, referer, cookie) ==
  [method |-> method, url |-> url, referer |-> referer, cookie |-> cookie,
   authorization |-> "", accept |-> "",
   protocol |-> S_http, host |-> U_proxyBaseHost, xfProto |-> <<>>, xfHost |-> <<>>]

SessionRequests ==
  {Request("GET", U_pathForm, <<>>, <<>>),
   Request("GET", U_pathForm, <<>>, <<"sid=c1">>),
   Request("GET", U_bare, U_refererPath, <<>>),
   Request("GET", S_proxy, <<>>, <<>>)}

Element(tag, attr, value) == [tag |-> tag, attrs |-> (attr :> value), shim |-> <<>>]

HtmlBody(head, body) ==
  [html |-> [head |-> head, body |-> body], css |-> <<>>, bytes |-> ""]

CssBody(css) == [html |-> [head |-> <<>>, body |-> <<>>], css |-> css, bytes |-> ""]

BytesBody(id) == [html |-> [head |-> <<>>, body |-> <<>>], css |-> <<>>, bytes |-> id]

Response(statusCode, rawHeaders, setCookie, contentType, body) ==
  [statusCode |-> statusCode, rawHeaders |-> rawHeaders, setCookie |-> setCookie,
   contentType |-> contentType, body |-> body]

U_page == HtmlBody(<<>>, <<Element("a", "href", <<"/", "a">>)>>)
U_sheet == CssBody(<<"a", "{", "b", ":", "u", "r", "l", "(", "/", "i", ".", "p", "n", "g", ")", "}">>)
U_textHtmlUtf8 == <<"t", "e", "x", "t", "/", "h", "t", "m", "l", ";", " ", "c", "h", "a", "r", "s", "e", "t", "=", "u", "t", "f", "-", "8">>
U_imagePng == <<"i", "m", "a", "g", "e", "/", "p", "n", "g">>

\* Upstream header lines, in several letter cases.
MixedCaseHeaderLines ==
  {<<<<"C", "o", "n", "t", "e", "n", "t", "-", "S", "e", "c", "u", "r", "i", "t", "y", "-", "P", "o", "l", "i", "c", "y">>, "default-src 'self'">>,
   <<<<"X", "-", "F", "R", "A", "M", "E", "-", "O", "P", "T", "I", "O", "N", "S">>, "DENY">>,
   <<<<"R", "e", "f", "e", "r", "r", "e", "r", "-", "P", "o", "l", "i", "c", "y">>, "no-referrer">>,
   <<<<"C", "o", "n", "t", "e", "n", "t", "-", "E", "n", "c", "o", "d", "i", "n", "g">>, "gzip">>,
   <<<<"E", "T", "a", "g">>, "W/1">>}

LowerCaseHeaderLines ==
  {<<<<"c", "o", "n", "t", "e", "n", "t", "-", "s", "e", "c", "u", "r", "i", "t", "y", "-", "p", "o", "l", "i", "c", "y">>, "default-src 'self'">>,
   <<<<"x", "-", "f", "r", "a", "m", "e", "-", "o", "p", "t", "i", "o", "n", "s">>, "SAMEORIGIN">>,
   <<<<"t", "r", "a", "n", "s", "f", "e", "r", "-", "e", "n", "c", "o", "d", "i", "n", "g">>, "chunked">>,
   <<<<"a", "c", "c", "e", "s", "s", "-", "c", "o", "n", "t", "r", "o", "l", "-", "a", "l", "l", "o", "w", "-", "o", "r", "i", "g", "i", "n">>, "https://e.com">>}

SessionCookie == [pair |-> "sid=u1", attrs |-> "; Path=/"]

UpstreamResponses ==
  {Response(200, MixedCaseHeaderLines, <<>>, U_textHtmlUtf8, U_page),
   Response(200, LowerCaseHeaderLines, <<>>, U_textHtmlUtf8, U_page),
   Response(200, {}, <<SessionCookie>>, U_textHtmlUtf8, U_page),
   Response(404, {}, <<>>, S_textCss, U_sheet),
   Response(500, {}, <<>>, U_imagePng, BytesBody("png")),
   Response(200, {}, <<>>, <<>>, BytesBody("raw"))}

\* A DNS failure, a timeout, a reset connection.
FetchErrors == {"ENOTFOUND", "ETIMEDOUT", "ECONNRESET"}

Next ==
  \/ \E req \in SessionRequests : Len(inbound) < MaxRequests /\ Receive(req)
  \/ \E i \in 1..Len(inbound), response \in UpstreamResponses :
       UpstreamResponds(i, response)
  \/ \E i \in 1..Len(inbound), error \in FetchErrors : UpstreamFails(i, error)

Spec == Init /\ [][Next]_vars

(***************************************************************************)
(* Claims checked under Spec.                                              *)
(***************************************************************************)
Requests == 1..Len(inbound)

Answered(i) == replies[i].kind = "response"

Failed(i) == replies[i].kind = "error"

Dispatched(i) == fetches[i].kind = "fetch"

\* C1: for every upstream response, whatever header names it carries and in
\* whatever letter case, the response sent to the client has no
\* Content-Security-Policy, Content-Encoding or Transfer-Encoding header, its
\* X-Frame-Options is ALLOWALL, its Referrer-Policy is unsafe-url and its
\* Access-Control-Allow-Origin is *.
C1_HeaderDiscipline ==
  \A i \in Requests :
    Answered(i) =>
      LET headers == responses[i].headers
      IN  /\ H_csp \notin DOMAIN headers
          /\ H_contentEncoding \notin DOMAIN headers
          /\ H_transferEncoding \notin DOMAIN headers
          /\ H_xfo \in DOMAIN headers /\ headers[H_xfo] = "ALLOWALL"
          /\ H_referrerPolicy \in DOMAIN headers
          /\ headers[H_referrerPolicy] = "unsafe-url"
          /\ H_acao \in DOMAIN headers /\ headers[H_acao] = "*"

\* C1's case: an upstream response that carries a Content-Security-Policy, an
\* X-Frame-Options, a Referrer-Policy and a Content-Encoding header in mixed
\* case has been answered to the client.
C1_Witness ==
  \E i \in Requests :
    /\ Answered(i)
    /\ replies[i].response.rawHeaders = MixedCaseHeaderLines
    /\ responses[i].status = 200

\* C2: the upstream request dispatched for an inbound request depends only on
\* that inbound request: the same inbound request produces the same outbound
\* request whatever was handled before it, and every cookie sent upstream is a
\* cookie of the inbound request's own Cookie header.
C2_OutboundFromInboundOnly ==
  /\ \A i, j \in Requests :
       inbound[i] = inbound[j] /\ Dispatched(i) /\ Dispatched(j)
         => outbound[i] = outbound[j]
  /\ \A i \in Requests :
       Dispatched(i) =>
         \A k \in 1..Len(outbound[i].cookie) :
           \E m \in 1..Len(inbound[i].cookie) :
             outbound[i].cookie[k] = inbound[i].cookie[m]

U_proxyOrigin == <<"h", "t", "t", "p", ":", "/", "/", "p">>
U_proxyQuery == <<"/", "p", "r", "o", "x", "y", "?", "u", "r", "l", "=">>

ResolverSchemes == {S_http, S_https}

\* A name, a name in capitals with a port, an IPv6 literal, a userinfo, a
\* video site, an IPv4 address.
ResolverAuthorities ==
  {<<"e", ".", "c", "o", "m">>, <<"E", ".", "c", "o", "m", ":", "8", "0", "8", "0">>, <<"[", ":", ":", "1", "]">>, <<"u", "@", "e", ".", "c", "o", "m">>, <<"y", "o", "u", "t", "u", ".", "b", "e">>, <<"1", "0", ".", "0", ".", "0", ".", "1">>}

\* Empty, root, an escaped slash, an escape that is not UTF-8, a path that
\* itself begins with /proxy.
ResolverPaths == {<<>>, S_slash, <<"/", "a", "%", "2", "F", "b">>, <<"/", "c", "a", "f", "%", "E", "9">>, <<"/", "p", "r", "o", "x", "y", "/", "x">>}

ResolverQueries == {<<>>, <<"?", "q", "=", "1", "%", "2", "0", "2", "&", "r", "=", "%", "2", "5">>, <<"?", "u", "r", "l", "=", "h", "t", "t", "p", ":", "/", "/", "x", ".", "c", "o", "m", "/">>}

Target(scheme, authority, path, query) ==
  [scheme |-> scheme, authority |-> authority, path |-> path, query |-> query]

ResolverTargets ==
  {Target(s, a, p, q) : s \in ResolverSchemes, a \in ResolverAuthorities,
                        p \in ResolverPaths, q \in ResolverQueries}

\* The upstream URL a target record stands for.
TargetUrl(t) == t.scheme \o S_colonSlashSlash \o t.authority \o t.path \o t.query

\* The request targets of the path form and of the query form of a target.
PathFormOf(t) == S_proxySlash \o t.scheme \o S_slash \o t.authority \o t.path \o t.query

QueryFormOf(t) == U_proxyQuery \o EncodeURIComponent(TargetUrl(t))

\* The pages a bare request may come from, and the Referer in either form.
RefererTargets ==
  {Target(S_https, <<"e", ".", "c", "o", "m">>, <<"/", "p", "a", "g", "e">>, <<>>),
   Target(S_https, <<"E", ".", "c", "o", "m", ":", "4", "4", "3">>, <<"/", "p", "a", "g", "e">>, <<>>)}

PathReferer(t) == U_proxyOrigin \o PathFormOf(t)

QueryReferer(t) == U_proxyOrigin \o QueryFormOf(t)

ProxyReferers ==
  {PathReferer(t) : t \in RefererTargets} \cup {QueryReferer(t) : t \in RefererTargets}

ResolverReferers == ProxyReferers \cup {<<>>, <<"h", "t", "t", "p", "s", ":", "/", "/", "o", "t", "h", "e", "r", ".", "c", "o", "m", "/">>}

\* Bare request targets: a stylesheet, a path with a raw query, two paths of
\* the upstream site that begin with the letters /proxy, the two
\* informational paths.
BarePaths ==
  {<<"/", "a", ".", "c", "s", "s">>, <<"/", "d", "i", "r", "/", "x", "?", "y", "=", "1", "%", "2", "0", "2">>, <<"/", "p", "r", "o", "x", "y", "-", "l", "i", "s", "t">>, <<"/", "p", "r", "o", "x", "y", "/", "s", "t", "a", "t", "i", "c", "/", "a", "p", "p", ".", "j", "s">>,
   S_slash, S_health}

ResolverRequests ==
  {Request(m, PathFormOf(t), <<>>, <<>>) : m \in {"GET", "POST"}, t \in ResolverTargets}
    \cup {Request("GET", QueryFormOf(t), <<>>, <<>>) : t \in ResolverTargets}
    \cup {Request("GET", u, r, <<>>) : u \in BarePaths, r \in ResolverReferers}
    \cup {Request("GET", PathFormOf(t), r, <<>>) : t \in RefererTargets, r \in ProxyReferers}
    \cup {Request("OPTIONS", u, r, <<>>) : u \in {<<"/", "a", ".", "c", "s", "s">>, U_pathForm}, r \in ProxyReferers}

ResolveInit == Init

ResolveNext == \E req \in ResolverRequests : inbound = <<>> /\ Receive(req)

SpecResolve == ResolveInit /\ [][ResolveNext]_vars

(***************************************************************************)
(* Claims checked under SpecResolve.                                       *)
(***************************************************************************)
\* The path form as the addressing rules give it,
\* ^/proxy/(https?)/([^/]+)(/.*)?$ : scheme, authority up to the next "/",
\* and the rest.
PathFormParts(path) ==
  LET afterProxy == Drop(path, Len(S_proxySlash))
      scheme == IF StartsWith(afterProxy, S_httpsSlash) THEN S_https ELSE S_http
      rest == Drop(afterProxy, Len(scheme) + 1)
      slash == IndexOf(rest, "/")
      authority == IF slash = 0 THEN rest ELSE Take(rest, slash - 1)
  IN  [ok |-> /\ StartsWith(path, S_proxySlash)
              /\ StartsWith(afterProxy, S_httpsSlash) \/ StartsWith(afterProxy, S_httpSlash)
              /\ authority # <<>>,
       scheme |-> scheme,
       authority |-> authority,
       path |-> Drop(rest, Len(authority))]

\* The outbound URL the path form stands for:
\* <scheme>://<authority><path or "/"><raw query>.
PathFormUrl(reqUrl) ==
  LET parts == PathFormParts(ReqPath(reqUrl))
  IN  parts.scheme \o S_colonSlashSlash \o parts.authority
        \o (IF parts.path = <<>> THEN S_slash ELSE parts.path)
        \o RawQueryString(reqUrl)

\* An authority that is a host name or IPv4 address of letters, digits, "_",
\* "." and "-", with an optional ":" and decimal port.
IsHostPort(authority) ==
  LET n == SpanLen(authority, WordChars \cup {".", "-"})
      port == Drop(authority, n + 1)
  IN  /\ n > 0
      /\ \/ n = Len(authority)
         \/ /\ authority[n + 1] = ":"
            /\ port # <<>>
            /\ SpanLen(port, Digit) = Len(port)

\* A request the routes before the resolver do not answer themselves.
Resolvable(req) ==
  /\ req.method # "OPTIONS"
  /\ ReqPath(req.url) \notin {S_slash, S_health}

\* A request that is in neither /proxy form.
IsBare(req) ==
  /\ ~PathFormParts(ReqPath(req.url)).ok
  /\ QueryUrl(req.url) = <<>>

\* C3 as stated: a request in neither /proxy form that carries a proxy-local
\* Referer is resolved from the Referer whatever its path is, and "Missing URL"
\* is answered only when the path form, the url parameter and the Referer all
\* yield nothing.
C3_RefererIsThirdSource ==
  \A i \in Requests :
    LET req == inbound[i]
    IN  Resolvable(req) =>
          /\ IsBare(req) /\ req.referer \in ProxyReferers => Dispatched(i)
          /\ fetches[i].kind = "respond" /\ fetches[i].error = "Missing URL"
               => IsBare(req) /\ req.referer \notin ProxyReferers

\* C8 as stated: a bare request whose Referer is a proxy-local URL of an
\* upstream target, in path form or in query form, is dispatched to the
\* target's scheme and authority followed by the request's own path and raw
\* query.
C8_RefererSplice ==
  \A i \in Requests :
    LET req == inbound[i]
    IN  \A t \in RefererTargets :
          Resolvable(req) /\ IsBare(req)
            /\ req.referer \in {PathReferer(t), QueryReferer(t)}
            => /\ Dispatched(i)
               /\ outbound[i].url = t.scheme \o S_colonSlashSlash \o t.authority \o req.url

C10_QueryFormDecodedOnce ==
  \A i \in Requests :
    \A t \in ResolverTargets :
      /\ inbound[i].method = "GET"
      /\ inbound[i].url = QueryFormOf(t)
      /\ IsHostPort(t.authority)
      /\ ~Includes(TargetUrl(t), S_youtuBe)
      => Dispatched(i) /\ outbound[i].url = TargetUrl(t)

(***************************************************************************)
(* The codec specification: rewriteURL encodes an absolute URL, a client   *)
(* follows the encoded URL, and the server resolves the request.           *)
(***************************************************************************)
CodecAuthorities ==
  {<<"e", ".", "c", "o", "m">>, <<"E", ".", "c", "o", "m">>, <<"e", ".", "c", "o", "m", ":", "4", "4", "3">>, <<"e", ".", "c", "o", "m", ":", "8", "0", "8", "0">>, <<"u", ":", "p", "w", "@", "e", ".", "c", "o", "m">>, <<"1", "0", ".", "0", ".", "0", ".", "1">>,
   <<"[", ":", ":", "1", "]">>}

CodecPaths == {<<>>, <<"/", "a">>, <<"/", "a", "/", ".", ".", "/", "b", "/", ".", "/", "c">>, <<"/", "a", "%", "2", "F", "b">>, <<"/", "c", "a", "f", "%", "E", "9">>}

CodecQueries == {<<>>, <<"?">>, <<"?", "q", "=", "1", "%", "2", "0", "2", "&", "r", "=", "%", "2", "5">>}

CodecFragments == {<<>>, <<"#", "t", "o", "p">>}

CodecTargets ==
  {[scheme |-> s, authority |-> a, path |-> p, query |-> q, fragment |-> f] :
     s \in ResolverSchemes, a \in CodecAuthorities, p \in CodecPaths,
     q \in CodecQueries, f \in CodecFragments}

CodecUrl(t) == TargetUrl(t) \o t.fragment

CodecProxyBases == {U_proxyOrigin, <<"h", "t", "t", "p", "s", ":", "/", "/", "p", "r", "o", "x", "y", ".", "e", "x", "a", "m", "p", "l", "e", ":", "8", "4", "4", "3">>}

\* The page the URL was found in; it plays no part for an absolute URL.
CodecBaseUrl == <<"h", "t", "t", "p", "s", ":", "/", "/", "b", "a", "s", "e", ".", "e", "x", "a", "m", "p", "l", "e", "/", "d", "i", "r", "/">>

\* The request a client sends for a URL of the proxy: the request target is
\* the URL after its origin and before its fragment, the Host header and the
\* protocol are those of the origin.
ClientRequest(localUrl, proxyBase) ==
  LET afterOrigin == Drop(localUrl, Len(proxyBase))
      hashAt == IndexOf(afterOrigin, "#")
      origin == ParseURL(proxyBase)
  IN  [Request("GET",
               IF hashAt = 0 THEN afterOrigin ELSE Take(afterOrigin, hashAt - 1),
               <<>>, <<>>)
         EXCEPT !.protocol = Take(origin.protocol, Len(origin.protocol) - 1),
                !.host = origin.host]

CodecInit ==
  /\ inbound = <<>>
  /\ stage = <<>>
  /\ fetches = <<>>
  /\ outbound = <<>>
  /\ replies = <<>>
  /\ responses = <<>>
  /\ jar = <<>>
  /\ hops = <<>>
  /\ closed = <<>>
  /\ sends = <<>>
  /\ calc \in {[op |-> "input", url |-> CodecUrl(t), proxyBase |-> b] :
                 t \in CodecTargets, b \in CodecProxyBases}

\* rewriteURL is applied to the URL.
Encode ==
  /\ calc.op = "input"
  /\ calc' = [op |-> "encoded", url |-> calc.url, proxyBase |-> calc.proxyBase,
              result |-> rewriteURL(calc.url, CodecBaseUrl, calc.proxyBase)]
  /\ UNCHANGED <<inbound, stage, fetches, outbound, replies, responses, jar, hops, closed, sends>>

\* The client follows the encoded URL.
Follow ==
  /\ calc.op = "encoded"
  /\ inbound = <<>>
  /\ StartsWith(calc.result, calc.proxyBase)
  /\ Receive(ClientRequest(calc.result, calc.proxyBase))

CodecNext == Encode \/ Follow

SpecCodec == CodecInit /\ [][CodecNext]_vars

\* The URL without its userinfo and fragment, as new URL normalises it.
NormalForm(u) ==
  LET parsed == ParseURL(u)
  IN  parsed.protocol \o S_slashSlash \o parsed.host \o parsed.pathname \o parsed.search

Followed == calc.op = "encoded" /\ Len(inbound) = 1

RewriterBaseUrl == <<"h", "t", "t", "p", "s", ":", "/", "/", "e", ".", "c", "o", "m", "/", "d", "i", "r", "/", "p", "a", "g", "e", ".", "h", "t", "m", "l">>

\* Relative and absolute references, the short-circuit values, a reference
\* that is already proxy-local, one with blanks around it, one that does not
\* parse, and two of other schemes.
RewriterUrls ==
  {<<"/", "a">>, <<"b", ".", "p", "n", "g">>, <<"h", "t", "t", "p", "s", ":", "/", "/", "x", ".", "c", "o", "m", "/", "p", "?", "q", "=", "1", "#", "f">>, <<"/", "/", "c", "d", "n", ".", "c", "o", "m", "/", "l", ".", "j", "s">>,
   <<"d", "a", "t", "a", ":", "i", "m", "a", "g", "e", "/", "p", "n", "g", ";", "b", "a", "s", "e", "6", "4", ",", "A", "A">>, S_hash, <<"j", "a", "v", "a", "s", "c", "r", "i", "p", "t", ":", "v", "o", "i", "d", "(", "0", ")">>, <<"m", "a", "i", "l", "t", "o", ":", "a", "@", "b", ".", "c">>,
   <<"t", "e", "l", ":", "+", "1">>, <<"b", "l", "o", "b", ":", "h", "t", "t", "p", "s", ":", "/", "/", "e", ".", "c", "o", "m", "/", "1">>, <<"a", "b", "o", "u", "t", ":", "b", "l", "a", "n", "k">>, <<"f", "t", "p", ":", "/", "/", "f", ".", "c", "o", "m", "/", "x">>,
   <<"h", "t", "t", "p", ":", "/", "/", "p", "/", "p", "r", "o", "x", "y", "/", "h", "t", "t", "p", "s", "/", "e", ".", "c", "o", "m", "/", "a">>, <<" ", "/", "s", "p", " ">>, <<"h", "t", "t", "p", ":", "/", "/", "[", "b", "a", "d">>}

RewriterSrcsets == {<<"s", ".", "p", "n", "g", " ", "1", "x", ",", " ", "/", "t", ".", "p", "n", "g", " ", "2", "x">>, <<"a", "b", "o", "u", "t", ":", "b", "l", "a", "n", "k", " ", "1", "x">>}

RewriterElements ==
  {Element(tag, "href", u) : tag \in {"a", "link", "area"}, u \in RewriterUrls}
    \cup {Element(tag, "src", u) : tag \in {"img", "script", "iframe", "embed"},
                                   u \in RewriterUrls}
    \cup {Element("form", "action", u) : u \in RewriterUrls}
    \cup {Element("img", "srcset", s) : s \in RewriterSrcsets}

RewriterHeads ==
  {<<>>,
   <<Element("meta", "http-equiv", S_csp), Element("meta", "name", S_referrer),
     Element("meta", "charset", <<"u", "t", "f", "-", "8">>)>>}

RewriterSheets ==
  {<<"a", "{", "b", ":", "u", "r", "l", "(", "/", "i", ".", "p", "n", "g", ")", "}">>, <<"a", "{", "b", ":", "U", "R", "L", "(", " ", "'", "i", ".", "p", "n", "g", "'", " ", ")", "}", "c", "{", "d", ":", "u", "r", "l", "(", "d", "a", "t", "a", ":", "x", ")", "}">>, <<"a", "{", "b", ":", "u", "r", "l", "(", "a", "b", "o", "u", "t", ":", "b", "l", "a", "n", "k", ")", "}">>}

RewriterInit ==
  /\ inbound = <<>>
  /\ stage = <<>>
  /\ fetches = <<>>
  /\ outbound = <<>>
  /\ replies = <<>>
  /\ responses = <<>>
  /\ jar = <<>>
  /\ hops = <<>>
  /\ closed = <<>>
  /\ sends = <<>>
  /\ calc \in {[op |-> "input", html |-> [head |-> h, body |-> <<el>>], css |-> c,
                baseUrl |-> RewriterBaseUrl, proxyBase |-> U_proxyOrigin] :
                 h \in RewriterHeads, el \in RewriterElements, c \in RewriterSheets}

\* rewriteHTML and rewriteCSS are applied to the inputs.
RewriteOnce ==
  /\ calc.op = "input"
  /\ calc' = [op |-> "once", html |-> calc.html, css |-> calc.css,
              baseUrl |-> calc.baseUrl, proxyBase |-> calc.proxyBase,
              onceHtml |-> rewriteHTML(calc.html, calc.baseUrl, calc.proxyBase),
              onceCss |-> rewriteCSS(calc.css, calc.baseUrl, calc.proxyBase)]
  /\ UNCHANGED <<inbound, stage, fetches, outbound, replies, responses, jar, hops, closed, sends>>

\* They are applied to their own output, with the same base and proxy base.
RewriteAgain ==
  /\ calc.op = "once"
  /\ calc' = [op |-> "twice", html |-> calc.html, css |-> calc.css,
              baseUrl |-> calc.baseUrl, proxyBase |-> calc.proxyBase,
              onceHtml |-> calc.onceHtml, onceCss |-> calc.onceCss,
              twiceHtml |-> rewriteHTML(calc.onceHtml, calc.baseUrl, calc.proxyBase),
              twiceCss |-> rewriteCSS(calc.onceCss, calc.baseUrl, calc.proxyBase)]
  /\ UNCHANGED <<inbound, stage, fetches, outbound, replies, responses, jar, hops, closed, sends>>

RewriterNext == RewriteOnce \/ RewriteAgain

SpecRewriter == RewriterInit /\ [][RewriterNext]_vars

\* C5 as stated: rewriteHTML applied to its own output returns that output.
C5_Idempotent ==
  calc.op = "twice" => calc.twiceHtml = calc.onceHtml

\* The short-circuit values of the addressing rules.
IsShortCircuit(v) ==
  \/ v = S_hash
  \/ \E p \in {S_data, S_javascript, S_mailto, S_tel, S_blob, S_about} : StartsWith(v, p)

\* A proxy-local URL of the proxy base that the resolver decodes to an
\* http/https upstream URL.
IsProxyLocal(v, proxyBase) ==
  /\ StartsWith(v, proxyBase \o S_proxySlash)
  /\ LET outcome == HandleRequest(ClientRequest(v, proxyBase))
     IN  /\ outcome.kind = "fetch"
         /\ ParseURL(outcome.targetUrl).protocol \in {<<"h", "t", "t", "p", ":">>, <<"h", "t", "t", "p", "s", ":">>}

\* A reference that new URL cannot parse.
IsUnparseable(v, baseUrl) == ~ParseURL(AbsoluteUrl(Trim(v), baseUrl)).ok

IsClosed(v, baseUrl, proxyBase) ==
  IsShortCircuit(v) \/ IsProxyLocal(v, proxyBase) \/ IsUnparseable(v, baseUrl)

\* The references of an element: its href, src and action values and the URL
\* of each srcset candidate.
ElementUrls(el) ==
  {el.attrs[a] : a \in DOMAIN el.attrs \cap {"href", "src", "action"}}
    \cup (IF HasAttr(el, "srcset")
          THEN LET cands == Split(el.attrs["srcset"], ",")
               IN  {SplitSpaces(Trim(cands[i]))[1] : i \in 1..Len(cands)}
          ELSE {})

\* The references of the url(...) tokens of a stylesheet.
RECURSIVE CssUrls(_)
CssUrls(css) ==
  IF css = <<>> THEN {}
  ELSE LET m == CssUrlMatch(css)
       IN  IF m.ok THEN {Trim(m.urlPath)} \cup CssUrls(Drop(css, m.length))
           ELSE CssUrls(Tail(css))

\* C6 as stated: after rewriteHTML and rewriteCSS every href, src, action and
\* srcset entry of every element and every CSS url(...) is a proxy-local URL
\* of the request's proxy base that decodes to an http/https URL, a
\* short-circuit value, or a reference that could not be parsed.
C6_ClosedNavigation ==
  calc.op = "once" =>
    /\ \A k \in 1..Len(calc.onceHtml.head) :
         \A v \in ElementUrls(calc.onceHtml.head[k]) :
           IsClosed(v, calc.baseUrl, calc.proxyBase)
    /\ \A k \in 1..Len(calc.onceHtml.body) :
         \A v \in ElementUrls(calc.onceHtml.body[k]) :
           IsClosed(v, calc.baseUrl, calc.proxyBase)
    /\ \A v \in CssUrls(calc.onceCss) : IsClosed(v, calc.baseUrl, calc.proxyBase)

(***************************************************************************)
(* The forwarding specification: one request, drawn from the three request *)
(* forms with and without the headers the handlers look at, from targets   *)
(* of other schemes and from candidates that are not URLs.                 *)
(***************************************************************************)
U_queryForm == <<"/", "p", "r", "o", "x", "y", "?", "u", "r", "l", "=", "h", "t", "t", "p", "s", ":", "/", "/", "e", ".", "c", "o", "m", "/">>
U_refererQuery == <<"h", "t", "t", "p", ":", "/", "/", "p", "/", "p", "r", "o", "x", "y", "?", "u", "r", "l", "=", "h", "t", "t", "p", "s", ":", "/", "/", "e", ".", "c", "o", "m", "/", "p", "a", "g", "e">>

\* The path form, the query form, and a bare path under a Referer of either
\* form, as pairs <<request target, Referer>>.
ForwardForms ==
  {<<U_pathForm, <<>>>>, <<U_queryForm, <<>>>>,
   <<U_bare, U_refererPath>>, <<U_bare, U_refererQuery>>}

HeaderRequests ==
  {[Request(method, form[1], form[2], cookie)
      EXCEPT !.authorization = authorization, !.accept = accept] :
     method \in {"GET", "POST"}, form \in ForwardForms,
     cookie \in {<<>>, <<"sid=c1">>, <<"sid=c1", "theme=dark">>},
     authorization \in {"", "Bearer t1"}, accept \in {"", "text/css"}}

\* Targets of schemes other than http and https, in the query form and in
\* the url parameter of a Referer.
SchemeRequests ==
  {Request("GET", u, <<>>, <<>>) :
     u \in {<<"/", "p", "r", "o", "x", "y", "?", "u", "r", "l", "=", "f", "t", "p", ":", "/", "/", "f", ".", "c", "o", "m", "/", "x">>, <<"/", "p", "r", "o", "x", "y", "?", "u", "r", "l", "=", "f", "i", "l", "e", ":", "/", "/", "/", "e", "t", "c", "/", "p", "a", "s", "s", "w", "d">>,
            <<"/", "p", "r", "o", "x", "y", "?", "u", "r", "l", "=", "w", "s", ":", "/", "/", "e", ".", "c", "o", "m", "/", "s">>, <<"/", "p", "r", "o", "x", "y", "?", "u", "r", "l", "=", "f", "t", "p", "%", "3", "A", "%", "2", "F", "%", "2", "F", "f", ".", "c", "o", "m", "%", "2", "F", "x">>}}
    \cup {Request("GET", U_bare, r, <<>>) :
            r \in {<<"h", "t", "t", "p", ":", "/", "/", "p", "/", "p", "r", "o", "x", "y", "?", "u", "r", "l", "=", "f", "t", "p", ":", "/", "/", "f", ".", "c", "o", "m", "/">>, <<"h", "t", "t", "p", ":", "/", "/", "p", "/", "p", "r", "o", "x", "y", "?", "u", "r", "l", "=", "f", "i", "l", "e", ":", "/", "/", "/", "e", "t", "c", "/">>}}

\* Candidates that do not parse as an absolute URL, in each of the forms.
InvalidRequests ==
  {Request("GET", u, <<>>, <<>>) :
     u \in {<<"/", "p", "r", "o", "x", "y", "/", "h", "t", "t", "p", "s", "/", "e", ".", "c", "o", "m", ":", "9", "9", "9", "9", "9", "/", "x">>, <<"/", "p", "r", "o", "x", "y", "/", "h", "t", "t", "p", "/", "e", ".", "c", "o", "m", ":", "x">>, <<"/", "p", "r", "o", "x", "y", "?", "u", "r", "l", "=", "f", "o", "o">>,
            <<"/", "p", "r", "o", "x", "y", "?", "u", "r", "l", "=", "h", "t", "t", "p", ":", "/", "/", "[", "b", "a", "d">>, <<"/", "p", "r", "o", "x", "y", "?", "u", "r", "l", "=", "%", "2", "F", "a", "%", "2", "F", "b">>, <<"/", "p", "r", "o", "x", "y", "?", "u", "r", "l", "=", "/", "/", "e", ".", "c", "o", "m", "/">>}}
    \cup {Request("GET", U_bare, r, <<>>) :
            r \in {<<"h", "t", "t", "p", ":", "/", "/", "p", "/", "p", "r", "o", "x", "y", "?", "u", "r", "l", "=", "f", "o", "o">>, <<"h", "t", "t", "p", ":", "/", "/", "p", "/", "p", "r", "o", "x", "y", "?", "u", "r", "l", "=", "h", "t", "t", "p", ":", "/", "/", "[", "b", "a", "d">>,
                   <<"h", "t", "t", "p", ":", "/", "/", "p", "/", "p", "r", "o", "x", "y", "?", "u", "r", "l", "=", "/", "a", "/", "b">>}}

ForwardRequests == HeaderRequests \cup SchemeRequests \cup InvalidRequests

ForwardInit == Init

ForwardNext == \E req \in ForwardRequests : inbound = <<>> /\ Receive(req)

SpecForward == ForwardInit /\ [][ForwardNext]_vars

(***************************************************************************)
(* Claims checked under SpecForward.                                       *)
(***************************************************************************)
\* The origin of the upstream a request is dispatched to.
UpstreamOrigin(url) == ParseURL(url).protocol \o S_slashSlash \o ParseURL(url).host

\* C11: every request the proxy dispatches, in the path form, the query form
\* or through the Referer fallback, carries the inbound Cookie and
\* Authorization unchanged when the client sent them, and the inbound Accept
\* likewise, and has the origin of its upstream as Referer and Origin.
C11_CredentialsForwarded ==
  \A i \in Requests :
    Dispatched(i) =>
      /\ outbound[i].cookie = inbound[i].cookie
      /\ outbound[i].authorization = inbound[i].authorization
      /\ inbound[i].accept # "" => outbound[i].accept = inbound[i].accept
      /\ outbound[i].origin = UpstreamOrigin(outbound[i].url)
      /\ outbound[i].referer \in {UpstreamOrigin(outbound[i].url),
                                  UpstreamOrigin(outbound[i].url) \o S_slash}

(***************************************************************************)
(* Further claims checked under SpecRewriter.                              *)
(***************************************************************************)
\* C12: rewriteURL returns its input unchanged when the input is "#" or
\* begins with data:, javascript:, mailto:, tel:, blob: or about:, and
\* rewriteHTML leaves an href, src or action attribute holding such a value as
\* it was.
C12_ShortCircuitUnchanged ==
  calc.op = "once" =>
    \A k \in 1..Len(calc.html.body) :
      \A a \in DOMAIN calc.html.body[k].attrs \cap {"href", "src", "action"} :
        LET v == calc.html.body[k].attrs[a]
        IN  IsShortCircuit(v) =>
              /\ rewriteURL(v, calc.baseUrl, calc.proxyBase) = v
              /\ calc.onceHtml.body[k].attrs[a] = v

(***************************************************************************)
(* Further claims checked under SpecForward.                               *)
(***************************************************************************)
\* C13: every URL an upstream request is dispatched for is an absolute URL
\* of scheme http or https, whichever form the request came in; a target of
\* another scheme is never dispatched.
C13_HttpSchemesOnly ==
  \A i \in Requests :
    Dispatched(i) =>
      /\ ParseURL(outbound[i].url).ok
      /\ ParseURL(outbound[i].url).protocol \in {S_http \o <<":">>, S_https \o <<":">>}

NoCandidate == [from |-> "none", url |-> <<>>]

\* The candidate target of a Referer that is not in the path form.
RefererCandidate(refererUrl) ==
  IF refererUrl.ok /\ ~RefererPathMatch(refererUrl.pathname).ok
       /\ Includes(refererUrl.pathname, S_proxy)
  THEN [from |-> "referer", url |-> RefererUrlParam(refererUrl.search)]
  ELSE NoCandidate

\* The candidate target of a request that reaches one of the two proxying
\* handlers: the path form or the url parameter of the request, or the url
\* parameter of its Referer.
Candidate(req) ==
  LET path == ReqPath(req.url)
  IN  IF \/ req.method = "OPTIONS"
         \/ req.method = "GET" /\ ToLowerCase(path) \in {S_slash, S_health, S_healthSlash}
      THEN NoCandidate
      ELSE IF MatchesProxyRoute(path)
      THEN (IF RouteParamDecodes(Drop(path, Len(S_proxy)))
            THEN [from |-> "request", url |-> ProxyTargetUrl(req)]
            ELSE NoCandidate)
      ELSE IF RouteParamDecodes(path) /\ req.referer # <<>>
      THEN RefererCandidate(ParseURL(req.referer))
      ELSE NoCandidate

Unparseable(candidate) == candidate.url # <<>> /\ ~ParseURL(candidate.url).ok

FetchRequests ==
  {Request("GET", U_pathForm, <<>>, <<>>),
   Request("GET", U_queryForm, <<>>, <<"sid=c1">>),
   Request("GET", U_bare, U_refererPath, <<>>)}

HopCookie == [pair |-> "hop=h1", attrs |-> "; Path=/; HttpOnly"]
PrefCookie == [pair |-> "pref=p1", attrs |-> "; Max-Age=60"]

\* A redirect to another host that sets a cookie, and one to a path of the
\* same host.
Redirect(location, setCookie) == [location |-> location, setCookie |-> setCookie]

RedirectResponses ==
  {Redirect(<<"h", "t", "t", "p", "s", ":", "/", "/", "o", ".", "c", "o", "m", "/", "d", "i", "r", "/">>, <<HopCookie>>), Redirect(<<"/", "l", "o", "g", "i", "n">>, <<>>)}

\* A page with a path-relative link.
U_relPage == HtmlBody(<<>>, <<Element("a", "href", <<"x">>)>>)

FetchResponses ==
  {Response(200, {}, <<SessionCookie, PrefCookie>>, U_textHtmlUtf8, U_relPage),
   Response(200, {}, <<>>, S_textCss, U_sheet),
   Response(404, {}, <<>>, U_imagePng, BytesBody("png"))}

FetchInit == Init

FetchNext ==
  \/ \E req \in FetchRequests : inbound = <<>> /\ Receive(req)
  \/ \E i \in 1..Len(inbound), redirect \in RedirectResponses :
       UpstreamRedirects(i, redirect)
  \/ \E i \in 1..Len(inbound), response \in FetchResponses :
       UpstreamResponds(i, response)
  \/ \E i \in 1..Len(inbound), error \in FetchErrors : UpstreamFails(i, error)
  \/ \E i \in 1..Len(inbound) : ClientDisconnects(i)

SpecFetch == FetchInit /\ [][FetchNext]_vars

(***************************************************************************)
(* Claims checked under SpecFetch.                                         *)
(***************************************************************************)
\* The Set-Cookie values of the redirects a fetch followed, in their order.
RECURSIVE HopCookies(_)
HopCookies(hopSeq) ==
  IF hopSeq = <<>> THEN <<>> ELSE Head(hopSeq).setCookie \o HopCookies(Tail(hopSeq))

\* The Set-Cookie values of a response sent to the client.
ClientCookies(response) ==
  IF H_setCookie \in DOMAIN response.headers THEN response.headers[H_setCookie]
  ELSE <<>>

\* C15: every Set-Cookie value an upstream sends while a request is served,
\* the values of the redirects followed on the way included, reaches the client
\* unchanged and once, and the proxy keeps none of them.
C15_SetCookieVerbatimOnce ==
  \A i \in Requests :
    Answered(i) =>
      /\ ClientCookies(responses[i])
           = HopCookies(hops[i]) \o replies[i].response.setCookie
      /\ jar = <<>>

UpstreamContentType(i) == replies[i].response.contentType

\* C17: when the fetch of a request followed redirects, the HTML and CSS
\* rewriters take the final URL as their base, and the scheme and authority
\* in the injected script are those of the final URL, not those of the URL
\* first requested.
C17_FinalUrlIsBase ==
  \A i \in Requests :
    Answered(i) =>
      /\ Includes(UpstreamContentType(i), S_textHtml) =>
           responses[i].body.html
             = rewriteHTML(replies[i].response.body.html, FinalUrl(i), fetches[i].proxyBase)
      /\ ~Includes(UpstreamContentType(i), S_textHtml)
           /\ Includes(UpstreamContentType(i), S_textCss) =>
           responses[i].body.css
             = rewriteCSS(replies[i].response.body.css, FinalUrl(i), fetches[i].proxyBase)

\* A response that carries what the upstream sent as its body.
HasUpstreamBody(i) == responses[i] # NoResponse /\ responses[i].body # NoBody

\* C20: once the client has gone while the fetch was in flight, the fetch is
\* cancelled, so that no upstream response is processed and nothing of an
\* upstream body is emitted for the request; and a response body is emitted
\* only after the whole upstream response has arrived and the response
\* headers have been rewritten.
C20_CancelledOnDisconnect ==
  \A i \in Requests :
    /\ closed[i] => ~Answered(i) /\ ~HasUpstreamBody(i)
    /\ HasUpstreamBody(i) =>
         /\ Answered(i)
         /\ responses[i].headers = ProxyResponseHeaders(IncomingHeaders(replies[i].response))

(***************************************************************************)
(* Charset detection, decoding and sending (src/server.js:50-128,          *)
(* 901-927).  A buffer is a sequence of bytes 0..255, a decoded string a   *)
(* sequence of code points; names and content types are strings as above.  *)
(***************************************************************************)
S_charsetEq == <<"c", "h", "a", "r", "s", "e", "t", "=">>
S_meta == <<"<", "m", "e", "t", "a">>
S_utf8 == <<"u", "t", "f", "-", "8">>
Quotes == {"'", "\""}

\* buffer.toString('ascii'): the low seven bits of each byte.
AsciiChar(b) == IF b % 128 >= 32 /\ b % 128 <= 126 THEN AsciiSeq[(b % 128) - 31] ELSE "<ctl>"

ToAscii(buffer) == [i \in 1..Len(buffer) |-> AsciiChar(buffer[i])]

\* The bytes of an ASCII string.
Bytes(s) == [i \in 1..Len(s) |-> CharCode(s[i])]

\* The characters of s from position k up to the first one in stops.
Until(s, k, stops) ==
  IF IndexOfAny(Drop(s, k - 1), stops) = 0 THEN Drop(s, k - 1)
  ELSE Take(Drop(s, k - 1), IndexOfAny(Drop(s, k - 1), stops) - 1)

\* The positions where sub occurs in s, whatever the letter case.
Occurrences(s, sub) ==
  {i \in 1..(Len(s) - Len(sub) + 1) :
     ToLowerCase(SubSeq(s, i, i + Len(sub) - 1)) = sub}

Minimum(set) == CHOOSE x \in set : \A y \in set : x <= y
Maximum(set) == CHOOSE x \in set : \A y \in set : x >= y

\* contentType.match(/charset=([^;]+)/i), trimmed and without quotes; <<>>
\* stands for null.
HeaderCharsetAt(contentType, at) ==
  SelectSeq(Trim(Until(contentType, at + Len(S_charsetEq), {";"})),
            LAMBDA c : c \notin Quotes)

detectCharsetFromContentType(contentType) ==
  LET found == {i \in Occurrences(contentType, S_charsetEq) :
                  Until(contentType, i + Len(S_charsetEq), {";"}) # <<>>}
  IN  IF found = {} THEN <<>> ELSE HeaderCharsetAt(contentType, Minimum(found))

\* The capture of /charset=["']?([^"'\s>]+)/ for the charset= at position at.
MetaCapture(s, at) ==
  LET k == at + Len(S_charsetEq)
  IN  IF k <= Len(s) /\ s[k] \in Quotes
      THEN Until(s, k + 1, Quotes \cup {" ", ">", "<ctl>"})
      ELSE Until(s, k, Quotes \cup {" ", ">", "<ctl>"})

\* The charset= positions the pattern can reach from the <meta at position
\* from: at least one character after <meta, no ">" in between, and a capture
\* that is not empty.
MetaCharsetPositions(s, from) ==
  {j \in Occurrences(s, S_charsetEq) :
     /\ j > from + Len(S_meta)
     /\ \A k \in (from + Len(S_meta))..(j - 1) : s[k] # ">"
     /\ MetaCapture(s, j) # <<>>}

\* htmlStart.match(/<meta[^>]+charset=["']?([^"'\s>]+)/i): the leftmost <meta
\* that matches, and for it the last charset= of the tag.  The second pattern
\* of the function (http-equiv) matches only where this one already has.
MetaCharset(s) ==
  LET starts == {i \in Occurrences(s, S_meta) : MetaCharsetPositions(s, i) # {}}
  IN  IF starts = {} THEN <<>>
      ELSE MetaCapture(s, Maximum(MetaCharsetPositions(s, Minimum(starts))))

detectCharsetFromHTML(buffer) == MetaCharset(ToAscii(Take(buffer, 1024)))

Replacement == 65533
ByteOrderMark == 65279

IsContinuation(b) == b >= 128 /\ b <= 191

\* buffer.toString('utf-8') for sequences of one to three bytes: a byte that
\* starts no such sequence, or a sequence cut short, gives U+FFFD.
RECURSIVE Utf8Decode(_)
Utf8Decode(b) ==
  IF b = <<>> THEN <<>>
  ELSE IF b[1] < 128 THEN <<b[1]>> \o Utf8Decode(Tail(b))
  ELSE IF b[1] >= 194 /\ b[1] <= 223
  THEN (IF Len(b) >= 2 /\ IsContinuation(b[2])
        THEN <<(b[1] - 192) * 64 + (b[2] - 128)>> \o Utf8Decode(Drop(b, 2))
        ELSE <<Replacement>> \o Utf8Decode(Tail(b)))
  ELSE IF b[1] >= 224 /\ b[1] <= 239
  THEN (IF Len(b) >= 3 /\ IsContinuation(b[2]) /\ IsContinuation(b[3])
        THEN <<(b[1] - 224) * 4096 + (b[2] - 128) * 64 + (b[3] - 128)>>
               \o Utf8Decode(Drop(b, 3))
        ELSE IF Len(b) >= 2 /\ IsContinuation(b[2])
        THEN <<Replacement>> \o Utf8Decode(Drop(b, 2))
        ELSE <<Replacement>> \o Utf8Decode(Tail(b)))
  ELSE <<Replacement>> \o Utf8Decode(Tail(b))

\* Buffer.from(string, 'utf8'), which res.send applies to a string.
RECURSIVE Utf8Encode(_)
Utf8Encode(text) ==
  IF text = <<>> THEN <<>>
  ELSE (IF text[1] < 128 THEN <<text[1]>>
        ELSE IF text[1] < 2048 THEN <<192 + (text[1] \div 64), 128 + (text[1] % 64)>>
        ELSE <<224 + (text[1] \div 4096), 128 + ((text[1] \div 64) % 64),
               128 + (text[1] % 64)>>)
       \o Utf8Encode(Tail(text))

\* iconv.decode removes a leading byte order mark.
StripBOM(text) == IF text # <<>> /\ text[1] = ByteOrderMark THEN Tail(text) ELSE text

\* latin1: each byte is its code point.
Latin1Decode(b) == b

\* cp1252: as latin1 but for 0x80..0x9F.
Cp1252High ==
  <<8364, Replacement, 8218, 402, 8222, 8230, 8224, 8225, 710, 8240, 352, 8249, 338,
    Replacement, 381, Replacement, Replacement, 8216, 8217, 8220, 8221, 8226, 8211,
    8212, 732, 8482, 353, 8250, 339, Replacement, 382, 376>>

Cp1252Decode(b) ==
  [i \in 1..Len(b) |-> IF b[i] >= 128 /\ b[i] <= 159 THEN Cp1252High[b[i] - 127] ELSE b[i]]

\* The name as decodeBuffer normalises it (src/server.js:99-110).
Replace(s, from, to) == [i \in 1..Len(s) |-> IF s[i] = from THEN to ELSE s[i]]

CharsetAlias(charset) ==
  IF charset \in {<<"i", "s", "o", "-", "8", "8", "5", "9", "-", "1">>, <<"i", "s", "o", "8", "8", "5", "9", "-", "1">>} THEN <<"l", "a", "t", "i", "n", "1">>
  ELSE IF charset = <<"w", "i", "n", "d", "o", "w", "s", "-", "1", "2", "5", "2">> THEN <<"c", "p", "1", "2", "5", "2">>
  ELSE IF charset = <<"u", "t", "f", "8">> THEN S_utf8
  ELSE charset

\* iconv.encodingExists and iconv.decode for the encodings modelled here; any
\* other name stands for one iconv-lite does not know
\* (src/server.js:113-127).
DecodeWith(buffer, charset) ==
  IF charset = S_utf8 THEN StripBOM(Utf8Decode(buffer))
  ELSE IF charset \in {<<"l", "a", "t", "i", "n", "1">>, <<"b", "i", "n", "a", "r", "y">>} THEN Latin1Decode(buffer)
  ELSE IF charset = <<"c", "p", "1", "2", "5", "2">> THEN Cp1252Decode(buffer)
  ELSE Utf8Decode(buffer)

DetectedCharset(buffer, contentType, fromHeader) ==
  IF fromHeader = <<>> /\ contentType # <<>> /\ Includes(contentType, S_textHtml)
  THEN detectCharsetFromHTML(buffer)
  ELSE fromHeader

CharsetOrDefault(charset) == IF charset = <<>> THEN S_utf8 ELSE charset

decodeBuffer(buffer, contentType) ==
  DecodeWith(buffer,
             CharsetAlias(Replace(ToLowerCase(CharsetOrDefault(
               DetectedCharset(buffer, contentType,
                               detectCharsetFromContentType(contentType)))), "_", "-")))

\* res.send of a string: the body is its UTF-8 encoding and the charset of the
\* Content-Type becomes utf-8; res.send of a buffer: the bytes and the
\* Content-Type as they are.
SetCharset(contentType) ==
  Trim(ToLowerCase(Until(contentType, 1, {";"}))) \o <<";", " ", "c", "h", "a", "r", "s", "e", "t", "=", "u", "t", "f", "-", "8">>

SendString(contentType, text) ==
  [contentType |-> SetCharset(contentType), bytes |-> Utf8Encode(text)]

SendBuffer(contentType, buffer) == [contentType |-> contentType, bytes |-> buffer]

\* What the injected elements add to a document that is rewritten; the
\* rewriting itself is rewriteHTML and rewriteCSS above.
InjectedText == Bytes(<<"<", "s", "c", "r", "i", "p", "t", ">", "<", "/", "s", "c", "r", "i", "p", "t", ">">>)

\* rewriteHTML and rewriteCSS on a decoded string: the string itself when the
\* rewriting throws (src/server.js:369-372, 383-385).
RewrittenOrKept(kind, text, throws) ==
  IF throws THEN text
  ELSE IF kind = "html" THEN InjectedText \o text
  ELSE text

\* The body handling of the callback (src/server.js:901-927).
SendBody(contentType, buffer, throws) ==
  IF Includes(contentType, S_textHtml)
  THEN SendString(contentType, RewrittenOrKept("html", decodeBuffer(buffer, contentType), throws))
  ELSE IF Includes(contentType, S_textCss)
  THEN SendString(contentType, RewrittenOrKept("css", decodeBuffer(buffer, contentType), throws))
  ELSE SendBuffer(contentType, buffer)

(***************************************************************************)
(* The degradation specification: an upstream body and content type, and   *)
(* whether the rewriter throws on the decoded document; the callback's     *)
(* body handling is applied to them.                                       *)
(***************************************************************************)
MaxPayload == 2

\* "a", a Latin-1 e acute, and the two bytes of its UTF-8 encoding.
PayloadBytes == {97, 233, 195, 169}

Payloads == UNION {[1..n -> PayloadBytes] : n \in 1..MaxPayload}

\* Plain payloads, two behind a meta tag that names a charset, and one behind
\* a byte order mark.
DegradeBodies ==
  Payloads
    \cup {Bytes(<<"<", "m", "e", "t", "a", " ", "c", "h", "a", "r", "s", "e", "t", "=", "l", "a", "t", "i", "n", "1", ">">>) \o p : p \in {<<233>>, <<97>>}}
    \cup {<<239, 187, 191, 97>>}

DegradeContentTypes ==
  {S_textHtml, U_textHtmlUtf8, <<"t", "e", "x", "t", "/", "h", "t", "m", "l", ";", " ", "c", "h", "a", "r", "s", "e", "t", "=", "I", "S", "O", "-", "8", "8", "5", "9", "-", "1">>,
   <<"t", "e", "x", "t", "/", "h", "t", "m", "l", ";", " ", "c", "h", "a", "r", "s", "e", "t", "=", "x", "-", "n", "o", "n", "e">>, S_textCss, <<"t", "e", "x", "t", "/", "c", "s", "s", ";", " ", "c", "h", "a", "r", "s", "e", "t", "=", "w", "i", "n", "d", "o", "w", "s", "-", "1", "2", "5", "2">>,
   U_imagePng}

DegradeInit ==
  /\ inbound = <<>>
  /\ stage = <<>>
  /\ fetches = <<>>
  /\ outbound = <<>>
  /\ replies = <<>>
  /\ responses = <<>>
  /\ jar = <<>>
  /\ hops = <<>>
  /\ closed = <<>>
  /\ sends = <<>>
  /\ calc \in {[op |-> "body", contentType |-> t, buffer |-> b, throws |-> x] :
                 t \in DegradeContentTypes, b \in DegradeBodies, x \in BOOLEAN}

SendUpstreamBody ==
  /\ calc.op = "body"
  /\ calc' = [op |-> "sent", contentType |-> calc.contentType, buffer |-> calc.buffer,
              throws |-> calc.throws,
              sent |-> SendBody(calc.contentType, calc.buffer, calc.throws)]
  /\ UNCHANGED <<inbound, stage, fetches, outbound, replies, responses, jar, hops, closed, sends>>

DegradeNext == SendUpstreamBody

SpecDegrade == DegradeInit /\ [][DegradeNext]_vars

\* The media type of a content type, without its parameters.
MediaType(contentType) == Trim(ToLowerCase(Until(contentType, 1, {";"})))

IsRewritable(contentType) ==
  Includes(contentType, S_textHtml) \/ Includes(contentType, S_textCss)

\* C16: when the rewriting of an HTML or CSS body throws, the body sent to the
\* client equals the upstream body byte for byte, also when that body is not
\* UTF-8, and the content type sent is the upstream's.
C16_DegradesToUpstreamBytes ==
  calc.op = "sent" /\ calc.throws /\ IsRewritable(calc.contentType) =>
    /\ calc.sent.bytes = calc.buffer
    /\ MediaType(calc.sent.contentType) = MediaType(calc.contentType)

\* The base element the addressing rules ask for:
\* <base href="<proxyBase>/proxy/<scheme>/<authority>/">.
BaseElementFor(baseUrl, proxyBase) ==
  Element("base", "href",
          proxyBase \o S_proxySlash
            \o Take(ParseURL(baseUrl).protocol, Len(ParseURL(baseUrl).protocol) - 1)
            \o S_slash \o ParseURL(baseUrl).host \o S_slash)

\* C18: after rewriteHTML the first children of the head are, in this order,
\* the injected referrer meta, the base element of the proxied origin and the
\* injected script; every other head element comes after them, and none of
\* those is a meta name=referrer or a meta http-equiv of
\* Content-Security-Policy or X-Frame-Options.
C18_HeadInjectionOrder ==
  calc.op = "once" =>
    LET head == calc.onceHtml.head
    IN  /\ Len(head) >= 3
        /\ head[1] = ReferrerMeta
        /\ head[2] = BaseElementFor(calc.baseUrl, calc.proxyBase)
        /\ head[3] = InjectedScript(ParseURL(calc.baseUrl), calc.proxyBase)
        /\ \A k \in 4..Len(head) : ~IsRemovedMeta(head[k])

(***************************************************************************)
(* The shim's toProxyURL (src/server.js:199-225), which runs in the        *)
(* browser with the three literals the injected script was filled with.    *)
(***************************************************************************)
IsSkippedByShim(url) == IsSkippedURL(url) \/ StartsWith(url, S_about)

\* The absolute URL toProxyURL parses (src/server.js:207-214).
ShimAbsoluteUrl(url, currentProtocol, currentHost) ==
  IF StartsWith(url, S_slashSlash) THEN S_httpsColon \o url
  ELSE IF StartsWith(url, S_httpPrefix) \/ StartsWith(url, S_httpsPrefix) THEN url
  ELSE currentProtocol \o S_colonSlashSlash \o currentHost \o url

toProxyURL(url, proxyBase, currentProtocol, currentHost) ==
  IF url = <<>> \/ IsSkippedByShim(url) THEN url
  ELSE IF \/ StartsWith(url, S_slashSlash)
          \/ StartsWith(url, S_httpPrefix) \/ StartsWith(url, S_httpsPrefix)
          \/ StartsWith(url, S_slash)
  THEN RewriteParsed(url, ParseURL(ShimAbsoluteUrl(url, currentProtocol, currentHost)),
                     proxyBase)
  ELSE url

(***************************************************************************)
(* The shim specification: a URL string, a page URL and a proxy base; the  *)
(* server's rewriteURL and the toProxyURL of the script injected into that *)
(* page are applied to the string.                                         *)
(***************************************************************************)
\* The references of the rewriter specification, and further ones: empty, a
\* query and a fragment alone, relative paths, a root-relative one with query
\* and fragment, blanks before or inside, capitals, a default port, a
\* userinfo, and another about: value.
ShimUrls ==
  RewriterUrls
    \cup {<<>>, <<"?", "q", "=", "1">>, <<"#", "f", "r", "a", "g">>, <<".", ".", "/", "u", "p">>, <<"x", "/", "y">>, <<"/", "a", "?", "b", "=", "1", "#", "c">>, <<" ", "/", "l", "e", "a", "d">>,
          <<"/", "/", "c", "d", "n", ".", "c", "o", "/", "x", " ", "y">>, <<"H", "T", "T", "P", "S", ":", "/", "/", "E", ".", "c", "o", "m", "/">>, <<"h", "t", "t", "p", ":", "/", "/", "e", ".", "c", "o", "m", ":", "8", "0", "/">>, <<"h", "t", "t", "p", "s", ":", "/", "/", "u", "@", "e", ".", "c", "o", "m", "/", "p">>,
          <<"a", "b", "o", "u", "t", ":", "s", "r", "c", "d", "o", "c">>, <<"h", "t", "t", "p", "s", ":", "/", "/", "e", ".", "c", "o", "m">>}

ShimBaseUrls == {RewriterBaseUrl, <<"h", "t", "t", "p", ":", "/", "/", "E", ".", "c", "o", "m", ":", "8", "0", "8", "0", "/">>}

ShimInit ==
  /\ inbound = <<>>
  /\ stage = <<>>
  /\ fetches = <<>>
  /\ outbound = <<>>
  /\ replies = <<>>
  /\ responses = <<>>
  /\ jar = <<>>
  /\ hops = <<>>
  /\ closed = <<>>
  /\ sends = <<>>
  /\ calc \in {[op |-> "url", url |-> u, baseUrl |-> b, proxyBase |-> p] :
                 u \in ShimUrls, b \in ShimBaseUrls, p \in CodecProxyBases}

\* The script rewriteHTML injects for the page, whose literals the shim runs
\* with.
ShimOf(baseUrl, proxyBase) == InjectedScript(ParseURL(baseUrl), proxyBase).shim

Convert ==
  /\ calc.op = "url"
  /\ calc' = [op |-> "converted", url |-> calc.url, baseUrl |-> calc.baseUrl,
              proxyBase |-> calc.proxyBase,
              server |-> rewriteURL(calc.url, calc.baseUrl, calc.proxyBase),
              shim |-> toProxyURL(calc.url, ShimOf(calc.baseUrl, calc.proxyBase)[1],
                                  ShimOf(calc.baseUrl, calc.proxyBase)[2],
                                  ShimOf(calc.baseUrl, calc.proxyBase)[3])]
  /\ UNCHANGED <<inbound, stage, fetches, outbound, replies, responses, jar, hops, closed, sends>>

ShimNext == Convert

SpecShim == ShimInit /\ [][ShimNext]_vars

\* C19: the shim's toProxyURL and the server's rewriteURL give the same
\* result for every URL string, be it absolute, scheme-relative,
\* root-relative, path-relative, a short-circuit value or unparseable.
C19_ShimMirrorsServer ==
  calc.op = "converted" => calc.shim = calc.server

(***************************************************************************)
(* The response specification: one request through the middleware and the  *)
(* routes, whose handler answers or starts a fetch; the YouTube handler,    *)
(* the charset decoder or a rewriter may throw.  The options of every       *)
(* fetch carry timeout: 30000 and maxRedirects: 5 (src/server.js:677-678,   *)
(* 757, 810), so a fetch in flight ends: the callback of proxyRequest runs  *)
(* with a response or with an error.  The fairness condition says that.     *)
(* Redirects are followed meanwhile, without the callback.                  *)
(***************************************************************************)
U_youtubeWatch == <<"/", "p", "r", "o", "x", "y", "/", "h", "t", "t", "p", "s", "/", "w", "w", "w", ".", "y", "o", "u", "t", "u", "b", "e", ".", "c", "o", "m", "/", "w", "a", "t", "c", "h", "?", "v", "=", "a", "b", "c">>
U_youtuBeQuery == <<"/", "p", "r", "o", "x", "y", "?", "u", "r", "l", "=", "h", "t", "t", "p", "s", ":", "/", "/", "y", "o", "u", "t", "u", ".", "b", "e", "/", "a", "b", "c">>
U_badEscape == <<"/", "p", "r", "o", "x", "y", "/", "%", "E", "0", "%", "A", "4", "%", "A">>

RespondRequests ==
  {Request(method, U_pathForm, <<>>, <<>>) : method \in {"OPTIONS", "GET", "POST", "HEAD"}}
    \cup {Request("GET", u, <<>>, <<>>) :
            u \in {S_slash, S_health, S_proxy, U_queryForm, U_youtubeWatch,
                   U_youtuBeQuery, U_badEscape, U_bare,
                   <<"/", "p", "r", "o", "x", "y", "?", "u", "r", "l", "=", "h", "t", "t", "p", ":", "/", "/", "[", "b", "a", "d">>}}
    \cup {Request("POST", U_youtubeWatch, <<>>, <<>>),
          Request("OPTIONS", U_bare, <<>>, <<>>)}
    \cup {Request(method, U_bare, r, <<>>) :
            method \in {"GET", "POST"},
            r \in {U_refererPath, U_refererQuery, <<"h", "t", "t", "p", ":", "/", "/", "p", "/", "o", "t", "h", "e", "r">>,
                   <<"h", "t", "t", "p", ":", "/", "/", "p", "/", "p", "r", "o", "x", "y", "?", "u", "r", "l", "=", "f", "o", "o">>}}

ThrowingResponses ==
  {Response(200, {}, <<>>, U_textHtmlUtf8, U_page),
   Response(404, {}, <<>>, S_textCss, U_sheet)}

RespondResponses ==
  ThrowingResponses \cup {Response(500, {}, <<>>, U_imagePng, BytesBody("png"))}

\* The request reaches the call of handleYouTube (src/server.js:641-642).
ReachesYouTube(req) ==
  /\ HandleRequest(req) = ProxyHandler(req)
  /\ req.method # "OPTIONS"
  /\ MatchesProxyRoute(ReqPath(req.url))
  /\ ProxyTargetUrl(req) # <<>>
  /\ ParseURL(ProxyTargetUrl(req)).ok
  /\ IsYouTube(ProxyTargetUrl(req))

\* handleYouTube throws (src/server.js:389-423).  Every res.send of its try
\* block is the last thing a return statement evaluates, so nothing has been
\* sent when the catch runs; it returns null, and the route goes on to the
\* options and to proxyRequest (src/server.js:643-719).
ReceiveYouTubeThrows(req) ==
  /\ ReachesYouTube(req)
  /\ Handled(req, CallProxyRequest(ProxyOptions(req, ProxyTargetUrl(req)),
                                   ProxyTargetUrl(req), getProxyBase(req)))

\* The upstream answers the fetch of request i with HTML or CSS and the
\* decoder or the rewriter throws on it (src/server.js:901-927).  The
\* headers are set before the try block; the body goes out as it came, by
\* the res.send of the catch, or, when rewriteHTML caught the error itself
\* (src/server.js:369-372), by the res.send of the branch.
UpstreamRespondsThrowing(i, response, thrower) ==
  /\ stage[i] = "fetching"
  /\ Includes(response.contentType, S_textHtml) \/ Includes(response.contentType, S_textCss)
  /\ stage' = [stage EXCEPT ![i] = "done"]
  /\ replies' = [replies EXCEPT
                   ![i] = [kind |-> "response", response |-> response,
                           thrower |-> thrower]]
  /\ responses' = [responses EXCEPT
                     ![i] = [ProxyResponse(response, fetches[i].targetUrl,
                                           fetches[i].proxyBase)
                               EXCEPT !.body = response.body]]
  /\ sends' = [sends EXCEPT ![i] = @ \o CallbackSends(replies'[i])]
  /\ jar' = JarAfter(jar, [fetches[i].options EXCEPT !.url = FinalUrl(i)], response)
  /\ UNCHANGED <<inbound, fetches, outbound, hops, closed, calc>>

Throwers == {"decodeBuffer", "rewriteHTML", "rewriteCSS"}

\* The fetch of request i ends: the callback of proxyRequest runs, with a
\* response or with an error, the timeout among them.
CallbackRuns(i) ==
  \/ \E response \in RespondResponses : UpstreamResponds(i, response)
  \/ \E response \in ThrowingResponses, thrower \in Throwers :
       UpstreamRespondsThrowing(i, response, thrower)
  \/ \E error \in FetchErrors : UpstreamFails(i, error)

RespondInit == Init

RespondNext ==
  \/ \E req \in RespondRequests : inbound = <<>> /\ Receive(req)
  \/ \E req \in RespondRequests : inbound = <<>> /\ ReceiveYouTubeThrows(req)
  \/ \E i \in 1..Len(inbound) :
       UpstreamRedirects(i, Redirect(<<"/", "l", "o", "g", "i", "n">>, <<>>))
  \/ \E i \in 1..Len(inbound) : CallbackRuns(i)
  \/ \E i \in 1..Len(inbound) : ClientDisconnects(i)

SpecRespond ==
  RespondInit /\ [][RespondNext]_vars /\ WF_vars(\E i \in 1..Len(inbound) : CallbackRuns(i))

(***************************************************************************)
(* Claims checked under SpecRespond.                                       *)
(***************************************************************************)
\* The response of request i is the one response sent for it.
SentOnce(i) == Len(sends[i]) = 1 /\ responses[i].status = sends[i][1]

\* C21: every request gets exactly one response.  At no moment has more
\* than one response been sent for a request; a request whose handler or
\* callback has run to its end has exactly one, also when handleYouTube,
\* the decoder or a rewriter threw; a response once sent is never followed
\* by another; and, the fetch ending by a reply, an error or the timeout,
\* every request received is eventually answered.
C21_ExactlyOneResponse ==
  /\ [](\A i \in Requests :
          /\ Len(sends[i]) <= 1
          /\ stage[i] = "done" <=> SentOnce(i))
  /\ [][\A i \in Requests : sends[i] # <<>> => sends'[i] = sends[i]]_vars
  /\ (inbound # <<>>) ~> (inbound # <<>> /\ SentOnce(1))

\* A request for a YouTube page whose handler threw was proxied, the
\* rewriter threw on the upstream HTML, and one response went out with the
\* upstream status and body.
C21_Witness ==
  \E i \in Requests :
    /\ ReachesYouTube(inbound[i])
    /\ Dispatched(i)
    /\ Answered(i)
    /\ "thrower" \in DOMAIN replies[i]
    /\ replies[i].thrower = "rewriteHTML"
    /\ responses[i].body = replies[i].response.body
    /\ sends[i] = <<replies[i].response.statusCode>>

=============================================================================
